---- MODULE Spec2Model ----
(***************************************************************************)
(* A model of the polite, resumable frontier crawler of ragchat:           *)
(*   src/src/ragchat/crawl.py      crawl(), RobotsCache, RateLimiter       *)
(*   src/scripts/crawl_pdfs_sync.py  the synchronous PDF crawler           *)
(* and of RateLimiter.wait called by a pool of concurrent tasks.           *)
(* URLs are records of their parsed components, so that urljoin, urldefrag *)
(* and the normalisation of netloc are computed rather than assumed.       *)
(***************************************************************************)
EXTENDS Integers, Sequences, FiniteSets, TLC

VARIABLES
    cfg,        \* CrawlConfig and the seed list of this run
    env,        \* what the network does in this run (robots.txt outcome)
    now,        \* the clock read by time.monotonic(), in ticks
    pc,         \* position of the crawl coroutine / of the sync loop
    q,          \* the frontier queue (deque / queue.Queue)
    seen,       \* the seen set
    cur,        \* the URL popped from the queue and being processed
    wakeAt,     \* deadline of the pending asyncio.sleep of RateLimiter.wait
    resp,       \* what _fetch / fetch returned for cur
    robots,     \* the RobotsCache of the crawl: cache and sitemap_urls
    last,       \* RateLimiter.last: netloc -> time of the last request
    fetched,    \* counter "fetched" of crawl()
    saved,      \* counter "saved" of crawl() / pdf_saved of the scripts
    store,      \* blobs and sidecars under raw_dir
    manifest,   \* lines of _manifest.jsonl appended in this run
    reqLog,     \* history: every page request sent, with its send time
    robotsGets, \* history: every client.get(robots_url) / rp.read() made
    enqLog,     \* history: every URL appended to the queue, in order
    wk,         \* the workers of the concurrent pool (limiter model)
    run,        \* which call of crawl() on raw_dir this is, and what the
                \* calls before it left: requests sent, manifest lines
    ret,        \* the last call of a helper function made on its own: its
                \* name, its arguments and the value it returned
    found       \* the set "found" of gather_from_sitemaps

vars == <<cfg, env, now, pc, q, seen, cur, wakeAt, resp, robots, last, fetched,
          saved, store, manifest, reqLog, robotsGets, enqLog, wk, run, ret, found>>

----------------------------------------------------------------------------
(* Bounds of the model *)

MaxSeeds == 2
MaxPagesBound == 3
MaxRate == 2
MaxWorkers == 2
MaxCalls == 2
MaxRuns == 2

(* time.monotonic() counts seconds; the clock of the model counts tenths *)
TicksPerSecond == 10

----------------------------------------------------------------------------
(* URLs *)

Url(s, h, p, pa, qu, f) ==
    [scheme |-> s, host |-> h, port |-> p, path |-> pa, query |-> qu, frag |-> f]

(* Python's None, for the Optional[str] results *)
None == Url("None", "", 0, "", "", "")

(* the empty string given as an href *)
EmptyHref == Url("", "", 0, "", "", "")

(* a relative reference: an absolute path and possibly a fragment *)
Rel(pa, f) == Url("", "", 0, pa, "", f)

(* str.lower() on the host names of the model *)
Lower(h) == CASE h = "A.ORG" -> "a.org"
              [] h = "EVIL.COM" -> "evil.com"
              [] h = "SUB.A.ORG" -> "sub.a.org"
              [] h = "SCNAT.CH" -> "scnat.ch"
              [] OTHER -> h

(* urlparse(u).netloc: the authority as written, case and port kept *)
Netloc(u) == [host |-> u.host, port |-> u.port]

(* an IPv6 literal of the authority without its brackets *)
Unbracket(h) == CASE h = "[::1]" -> "::1" [] OTHER -> h

(* urlparse(u).hostname: lower-cased, without the port and without the
   brackets of an IPv6 literal *)
Hostname(u) == Unbracket(Lower(u.host))

(* urlparse(u).port raises ValueError: an authority with colons outside
   brackets has a port part that is no number *)
PortRaises(u) == u.host = "::1"

(* the schemes of urllib.parse.uses_relative that occur in the model *)
UsesRelative == {"", "http", "https"}

(* urllib.parse.urljoin for absolute hrefs and for absolute-path or
   fragment-only relative references; an href with the scheme of the base
   and no authority is resolved like a relative reference *)
urljoin(base, href) ==
    IF base = EmptyHref THEN href
    ELSE IF href.scheme # "" /\ ( \/ href.scheme # base.scheme
                                 \/ href.scheme \notin UsesRelative
                                 \/ href.host # "" )
    THEN href
    ELSE IF href = EmptyHref THEN base
    ELSE [scheme |-> base.scheme, host |-> base.host, port |-> base.port,
          path   |-> IF href.path = "" THEN base.path ELSE href.path,
          query  |-> IF href.path = "" /\ href.query = "" THEN base.query
                     ELSE href.query,
          frag   |-> href.frag]

(* urllib.parse.urldefrag(u)[0] *)
urldefrag(u) == [u EXCEPT !.frag = ""]

(* str.startswith("http") on the schemes of the model *)
StartsWithHttp(s) == s \in {"http", "https", "httpx"}

IsDefaultPort(s, p) == (s = "http" /\ p = 80) \/ (s = "https" /\ p = 443)

(* _norm_url without its urldefrag step: the fragment stays in the result *)
_norm_url_keepfrag(base, href) ==
    IF href = EmptyHref THEN None
    ELSE LET u == urljoin(base, href)
         IN  IF ~StartsWithHttp(u.scheme) THEN None
             ELSE IF PortRaises(u) THEN None
             ELSE [u EXCEPT !.host = Hostname(u),
                            !.port = IF u.port # 0 /\ ~IsDefaultPort(u.scheme, u.port)
                                     THEN u.port ELSE 0]

_norm_url(base, href) ==
    IF href = EmptyHref THEN None
    ELSE LET absu == urljoin(base, href)
             u    == urldefrag(absu)
         IN  IF ~StartsWithHttp(u.scheme) THEN None
             ELSE IF PortRaises(u) THEN None
             ELSE [u EXCEPT !.host = Hostname(u),
                            !.port = IF u.port # 0 /\ ~IsDefaultPort(u.scheme, u.port)
                                     THEN u.port ELSE 0]

(* host.endswith("." + d) on the host names of the model *)
EndsWithDot(host, d) == <<host, d>> \in {<<"sub.a.org", "a.org">>}

(* dom.lower().lstrip(".") *)
StripDom(dom) == CASE dom = ".a.org" -> "a.org" [] OTHER -> Lower(dom)

(* _domain_allowed without the test of include_subdomains of line 68 *)
_domain_allowed_anysub(url, allow_domains, include_subdomains) ==
    LET host == Hostname(url)
    IN  /\ host # ""
        /\ \E dom \in allow_domains :
              LET d == StripDom(dom)
              IN  host = d \/ EndsWithDot(host, d)

_domain_allowed(url, allow_domains, include_subdomains) ==
    LET host == Hostname(url)
    IN  /\ host # ""
        /\ \E dom \in allow_domains :
              LET d == StripDom(dom)
              IN  host = d \/ (include_subdomains /\ EndsWithDot(host, d))

----------------------------------------------------------------------------
(* The site served to the crawl: one allow-listed host, a.org, whose        *)
(* robots.txt disallows /p and names one sitemap, and a foreign host. The   *)
(* page / links to /p, which a.org does not have: it answers 404 with an    *)
(* HTML body.                                                               *)

Mailto == Url("mailto", "", 0, "x@a.org", "", "")

(* the hrefs of the anchors of the page served at a path of a.org *)
PageLinks(path) ==
    CASE path = "/"  -> << Url("https", "scnat.ch", 0, "/", "", ""),
                           Rel("/a", "x"), Rel("/a", "y"), Rel("/p", ""),
                           Rel("/doc.pdf", ""), Url("http", "EVIL.COM", 0, "/", "", ""),
                           Mailto, EmptyHref >>
      [] path = "/a" -> << Rel("/b", ""), Url("http", "A.ORG", 80, "/", "", "top") >>
      [] OTHER       -> << >>

(* the Content-Type header of the response for a path of a.org *)
PageCT(path) ==
    CASE path = "/"        -> "text/html; charset=utf-8"
      [] path = "/a"       -> "text/html"
      [] path = "/b"       -> "image/png"
      [] path = "/doc.pdf" -> "application/octet-stream"
      [] OTHER             -> "text/html"

PagePaths == {"/", "/a", "/b", "/doc.pdf"}

(* the hrefs of the anchors of the body a.org sends with status 404 *)
NotFoundLinks == << Rel("/", ""), Rel("/b", "") >>

(* the paths robots.txt of a.org disallows for every user agent *)
RobotsDisallow == {"/p"}

(* the Sitemap: lines of robots.txt of a.org *)
RobotsSitemaps == << Url("http", "a.org", 0, "/sitemap.xml", "", "") >>

(* the <loc> entries of the sitemap documents of a.org *)
SitemapLocs(sm) ==
    IF Hostname(sm) = "a.org" /\ sm.path = "/sitemap.xml"
    THEN { Url("http", "a.org", 0, "/a", "", ""), Url("http", "a.org", 80, "/b", "", "s") }
    ELSE {}

(* the response of the server for a page request *)
SiteResponse(url) ==
    IF Hostname(url) = "a.org" /\ url.path \in PagePaths
    THEN [ok |-> TRUE, status |-> 200, ct |-> PageCT(url.path), links |-> PageLinks(url.path),
          parses |-> TRUE]
    ELSE [ok |-> TRUE, status |-> 404, ct |-> "text/html", links |-> NotFoundLinks,
          parses |-> TRUE]

(* _fetch returning None: the request raised *)
NoResponse == [ok |-> FALSE, status |-> 0, ct |-> "", links |-> << >>, parses |-> TRUE]

(* how a request ended, for the request log *)
Outcome(r) == IF ~r.ok THEN "raised" ELSE IF r.status = 200 THEN "200" ELSE "error status"

(* what a page request can come to: an exception or the server's answer *)
FetchOutcomes(url) == {NoResponse, SiteResponse(url)}

(* the server's answer with a body on which the HTML parser raises *)
Unparsable(url) == [SiteResponse(url) EXCEPT !.parses = FALSE]

(* (header or "").split(";")[0].strip().lower() on the headers of the model *)
MediaType(ct) == CASE ct = "text/html; charset=utf-8" -> "text/html" [] OTHER -> ct

(* the suffix the URL string ends in, among those the code tests for *)
PathSuffix(path) ==
    CASE path = "/doc.pdf" -> ".pdf"
      [] path = "/report.pdf" -> ".pdf"
      [] path = "/"        -> "/"
      [] OTHER             -> ""

UrlSuffix(u) ==
    IF u.frag # "" THEN "" ELSE IF u.query # "" THEN "" ELSE PathSuffix(u.path)

----------------------------------------------------------------------------
(* RobotsCache *)

(* a RobotFileParser: its flags and the Disallow rules it parsed *)
Unread      == [state |-> "unread", disallow |-> {}]
AllowAll    == [state |-> "allow_all", disallow |-> {}]
DisallowAll == [state |-> "disallow_all", disallow |-> {}]
Parsed(d)   == [state |-> "parsed", disallow |-> d]

(* RobotFileParser.can_fetch *)
can_fetch(rp, url) ==
    CASE rp.state = "disallow_all" -> FALSE
      [] rp.state = "allow_all"    -> TRUE
      [] rp.state = "unread"       -> FALSE
      [] OTHER                     -> url.path \notin rp.disallow

(* the statuses a robots.txt request can end in, and the failure marker *)
RobotsEnvs == {"200", "403", "404", "500", "net_error"}

StatusOf(e) == CASE e = "200" -> 200 [] e = "403" -> 403 [] e = "404" -> 404 [] OTHER -> 500

(* client.get(robots_url): a synchronous httpx.Client returns the response
   or raises; an httpx.AsyncClient returns a coroutine object, which is not
   awaited and has no status_code *)
client_get(client, e, robots_url) ==
    IF client = "AsyncClient" THEN [kind |-> "coroutine"]
    ELSE IF e = "net_error" \/ Hostname(robots_url) # "a.org" THEN [kind |-> "raise"]
    ELSE [kind |-> "response", status |-> StatusOf(e),
          disallow |-> RobotsDisallow, sitemaps |-> RobotsSitemaps]

EmptyRobotsCache == [cache |-> << >>, sitemap_urls |-> << >>]

(* RobotsCache.allowed: the cache after the call, the robots.txt requests
   it made, and its result *)
RobotsCache_allowed(rc, client, e, url) ==
    LET netloc == Netloc(url)
    IN  IF netloc \in DOMAIN rc.cache
        THEN [rc |-> rc, gets |-> << >>, ok |-> can_fetch(rc.cache[netloc], url)]
        ELSE LET robots_url == Url(url.scheme, url.host, url.port, "/robots.txt", "", "")
                 rresp  == client_get(client, e, robots_url)
                 raised == rresp.kind # "response"
                 rp     == IF raised THEN Parsed({})
                           ELSE IF rresp.status >= 400 THEN Parsed({})
                           ELSE Parsed(rresp.disallow)
                 sm     == IF raised THEN (netloc :> << >>) @@ rc.sitemap_urls
                           ELSE IF rresp.status >= 400 THEN rc.sitemap_urls
                           ELSE (netloc :> rresp.sitemaps) @@ rc.sitemap_urls
             IN  [rc   |-> [cache |-> (netloc :> rp) @@ rc.cache, sitemap_urls |-> sm],
                  gets |-> << robots_url >>,
                  ok   |-> can_fetch(rp, url)]

(* RobotsCache.sitemaps_for *)
sitemaps_for(rc, url) ==
    IF Netloc(url) \in DOMAIN rc.sitemap_urls THEN rc.sitemap_urls[Netloc(url)] ELSE << >>

(* _discover_from_sitemaps: its own RobotsCache, one robots load per seed,
   then every sitemap the host declared; acc collects the discovered URLs
   and the robots.txt requests made *)
RECURSIVE DiscoverFrom(_, _, _, _, _)
DiscoverFrom(client, e, start_urls, rc, acc) ==
    IF start_urls = << >> THEN acc
    ELSE LET s    == Head(start_urls)
             a    == RobotsCache_allowed(rc, client, e, s)
             sms  == sitemaps_for(a.rc, s)
             urls == UNION { SitemapLocs(sms[i]) : i \in DOMAIN sms }
         IN  DiscoverFrom(client, e, Tail(start_urls), a.rc,
                          [discovered |-> acc.discovered \cup urls,
                           gets       |-> acc.gets \o a.gets])

_discover_from_sitemaps(client, e, start_urls) ==
    DiscoverFrom(client, e, start_urls, EmptyRobotsCache,
                 [discovered |-> {}, gets |-> << >>])

----------------------------------------------------------------------------
(* RateLimiter *)

(* RateLimiter.__init__: min_interval = 1.0 / max(per_domain_rps, 0.001),
   in ticks, for the rates of the model *)
min_interval(rps) == TicksPerSecond \div rps

(* self.last is a defaultdict(lambda: 0.0) *)
LastOf(l, host) == IF host \in DOMAIN l THEN l[host] ELSE 0

(* RateLimiter.wait up to its suspension point: the time to sleep, 0 if
   the call goes through without sleeping *)
WaitDeficit(l, rps, host, t) ==
    LET delta == t - LastOf(l, host)
    IN  IF delta < min_interval(rps) THEN min_interval(rps) - delta ELSE 0

----------------------------------------------------------------------------
(* Persister *)

(* _hash_name: the first 16 hex digits of sha256 of the URL string; the
   model keys the slot by the URL itself (no two URLs of the model collide) *)
_hash_name(url) == url

(* "pdf" in content_type, on the content types of the model *)
ContainsPdf(content_type) == content_type \in {"application/pdf", "application/x-pdf"}

(* _guess_kind *)
_guess_kind(url, content_type) ==
    IF UrlSuffix(url) = ".pdf" \/ ContainsPdf(content_type) THEN "pdf" ELSE "html"

SavedPath(url, content_type) ==
    LET kind == _guess_kind(url, content_type)
    IN  [kind |-> kind, h |-> _hash_name(url), ext |-> IF kind = "pdf" THEN ".pdf" ELSE ".html"]

EmptyStore == [blobs |-> {}, partial |-> {}, metas |-> {}]

(* how the two writes of _save_blob can end *)
SaveOutcomes == {"ok", "blob_fails", "meta_fails"}

(* _save_blob: write_bytes of the blob, then write_text of the sidecar; a
   write that raises leaves what was written before it. write_bytes opens
   the path for writing, which truncates a blob an earlier save left there *)
_save_blob(st, url, content_type, outcome) ==
    LET sp == SavedPath(url, content_type)
    IN  CASE outcome = "blob_fails" -> [st EXCEPT !.blobs = @ \ {sp},
                                                  !.partial = @ \cup {sp}]
          [] outcome = "meta_fails" -> [st EXCEPT !.blobs = @ \cup {sp},
                                                  !.partial = @ \ {sp}]
          [] OTHER                  -> [st EXCEPT !.blobs = @ \cup {sp},
                                                  !.partial = @ \ {sp},
                                                  !.metas = @ \cup {[kind |-> sp.kind, h |-> sp.h]}]

----------------------------------------------------------------------------
(* Link Extractor and the enqueueing loop of crawl() *)

(* _parse_links: every href, normalised against the page URL; None dropped *)
RECURSIVE _parse_links(_, _)
_parse_links(base_url, hrefs) ==
    IF hrefs = << >> THEN << >>
    ELSE LET n == _norm_url(base_url, Head(hrefs))
         IN  (IF n # None THEN << n >> ELSE << >>) \o _parse_links(base_url, Tail(hrefs))

(* _should_enqueue: "... or True" *)
_should_enqueue(url) == TRUE

(* line 268 with the links of every anchor returned although the parser
   raised *)
ParsedLinks_anyway(base_url, r) == _parse_links(base_url, r.links)

(* line 268: _parse_links(url, r.text) builds the whole list before the
   loop of lines 269-277 sees a link; when the parser raises, the except
   clause of line 278 is reached with nothing enqueued *)
ParsedLinks(base_url, r) == IF r.parses THEN _parse_links(base_url, r.links) ELSE << >>

(* the loop "for nurl in links" of crawl(); f is << q, seen, enqLog >> *)
RECURSIVE EnqueueLinks(_, _, _)
EnqueueLinks(links, c, f) ==
    IF links = << >> THEN f
    ELSE LET nurl == Head(links)
             skip == \/ nurl \in f[2]
                     \/ ~_domain_allowed(nurl, c.allow_domains, c.include_subdomains)
                     \/ ~_should_enqueue(nurl)
         IN  EnqueueLinks(Tail(links), c,
                          IF skip THEN f
                          ELSE << Append(f[1], nurl), f[2] \cup {nurl}, Append(f[3], nurl) >>)

(* the loop "for s in seeds" of crawl(): n = _norm_url(s, "") or s *)
RECURSIVE SeedsN(_, _)
SeedsN(seeds, c) ==
    IF seeds = << >> THEN << >>
    ELSE LET s  == Head(seeds)
             nn == _norm_url(s, EmptyHref)
             n  == IF nn # None THEN nn ELSE s
         IN  (IF _domain_allowed(n, c.allow_domains, c.include_subdomains)
              THEN << n >> ELSE << >>) \o SeedsN(Tail(seeds), c)

Range(s) == { s[i] : i \in DOMAIN s }

(* the orders in which "for u in discovered" can iterate over a set *)
OrdersOf(S) == { s \in [1..Cardinality(S) -> S] : Range(s) = S }

----------------------------------------------------------------------------
(* crawl() of crawl.py: one coroutine, suspended only in the sleep of      *)
(* RateLimiter.wait and in _fetch                                           *)

HTML_CT == {"text/html", "application/xhtml+xml"}
PDF_CT  == {"application/pdf"}

(* the client crawl() hands to both RobotsCache instances *)
CrawlClient == "AsyncClient"

RawSeeds == { Url("http", "a.org", 0, "/", "", ""),
              Url("http", "a.org", 0, "/b", "", ""),
              Url("http", "A.ORG", 0, "/doc.pdf", "", ""),
              Url("http", "evil.com", 0, "/", "", "") }

SeedLists == UNION { [1..n -> RawSeeds] : n \in 1..MaxSeeds }

(* the rates of the model: those whose interval is a whole number of ticks *)
Rates == { r \in 1..MaxRate : TicksPerSecond % r = 0 }

(* the values time.monotonic() can have when crawl() starts, and the times
   a request can take *)
StartTimes == {TicksPerSecond, 2 * TicksPerSecond}
FetchTimes == {0, TicksPerSecond}

(* by how much a sleep can overrun its deadline *)
WakeLateness == {0, 1}

(* no helper function was called on its own *)
NoCall == [fn |-> "", args |-> << >>, value |-> None]

(* the first call of crawl() on an empty raw_dir *)
FirstRun == [n |-> 1, reqs |-> 0, lines |-> 0]

Configs ==
    [seeds : SeedLists, allow_domains : {{"a.org"}}, include_subdomains : {TRUE},
     obey_robots_txt : BOOLEAN, rate_limit_per_domain : Rates,
     max_pages : 1..MaxPagesBound, use_sitemaps : BOOLEAN]

Init ==
    /\ cfg \in Configs
    /\ env \in [robots : {"200"}]
    /\ now \in StartTimes
    /\ pc = "start"
    /\ q = << >>
    /\ seen = {}
    /\ cur = None
    /\ wakeAt = 0
    /\ resp = NoResponse
    /\ robots = EmptyRobotsCache
    /\ last = << >>
    /\ fetched = 0
    /\ saved = 0
    /\ store = EmptyStore
    /\ manifest = << >>
    /\ reqLog = << >>
    /\ robotsGets = << >>
    /\ enqLog = << >>
    /\ wk = << >>
    /\ run = FirstRun
    /\ ret = NoCall
    /\ found = {}

(* lines 209-237: the seeds, the optional sitemap discovery, the first
   content of the queue *)
CrawlStart ==
    /\ pc = "start"
    /\ LET seeds_n == SeedsN(cfg.seeds, cfg)
           d    == IF cfg.use_sitemaps
                   THEN _discover_from_sitemaps(CrawlClient, env.robots, seeds_n)
                   ELSE [discovered |-> {}, gets |-> << >>]
           keep == { u \in d.discovered :
                       _domain_allowed(u, cfg.allow_domains, cfg.include_subdomains) }
       IN  \E order \in OrdersOf(keep) :
              /\ q' = order \o seeds_n
              /\ seen' = keep \cup Range(seeds_n)
              /\ enqLog' = order \o seeds_n
              /\ robotsGets' = d.gets
    /\ pc' = "loop"
    /\ UNCHANGED <<cfg, env, run, ret, found, now, cur, wakeAt, resp, robots, last, fetched, saved,
                   store, manifest, reqLog, wk>>

(* deque.pop(): the item at the right end *)
popleft_right(dq) == [item |-> dq[Len(dq)], rest |-> SubSeq(dq, 1, Len(dq) - 1)]

(* line 242: deque.popleft() *)
popleft(dq) == [item |-> Head(dq), rest |-> Tail(dq)]

(* lines 241-249: pop a URL, the robots check, RateLimiter.wait up to its
   sleep; without a sleep the timestamp is recorded and _fetch sends *)
Dequeue ==
    /\ pc = "loop"
    /\ q # << >>
    /\ fetched < cfg.max_pages
    /\ LET url == popleft(q).item
           a   == IF cfg.obey_robots_txt
                  THEN RobotsCache_allowed(robots, CrawlClient, env.robots, url)
                  ELSE [rc |-> robots, gets |-> << >>, ok |-> TRUE]
           deficit == WaitDeficit(last, cfg.rate_limit_per_domain, Netloc(url), now)
       IN  /\ q' = popleft(q).rest
           /\ robots' = a.rc
           /\ robotsGets' = robotsGets \o a.gets
           /\ IF ~a.ok
              THEN /\ pc' = "loop"
                   /\ UNCHANGED <<cur, wakeAt, last, reqLog>>
              ELSE /\ cur' = url
                   /\ IF deficit > 0
                      THEN /\ pc' = "sleep"
                           /\ wakeAt' = now + deficit
                           /\ UNCHANGED <<last, reqLog>>
                      ELSE /\ pc' = "fetching"
                           /\ last' = (Netloc(url) :> now) @@ last
                           /\ reqLog' = Append(reqLog, [url |-> url, t |-> now, res |-> "pending"])
                           /\ UNCHANGED wakeAt
    /\ UNCHANGED <<cfg, env, run, ret, found, now, seen, resp, fetched, saved, store, manifest, enqLog,
                   wk>>

(* lines 118-119, 249: the sleep of RateLimiter.wait is over, no sooner than
   its deadline; the timestamp is recorded and _fetch sends the request *)
Wake ==
    /\ pc = "sleep"
    /\ \E t \in { wakeAt + d : d \in WakeLateness } :
          /\ now' = t
          /\ last' = (Netloc(cur) :> t) @@ last
          /\ reqLog' = Append(reqLog, [url |-> cur, t |-> t, res |-> "pending"])
    /\ pc' = "fetching"
    /\ UNCHANGED <<cfg, env, run, ret, found, q, seen, cur, wakeAt, resp, robots, fetched, saved,
                   store, manifest, robotsGets, enqLog, wk>>

(* the tests of lines 256-257 *)
IsPdf(url, ct)  == ct \in PDF_CT \/ UrlSuffix(url) = ".pdf"

(* the test of line 257 answering True for every response *)
IsHtml_any(url, ct) == TRUE

IsHtml(url, ct) == ct \in HTML_CT \/ UrlSuffix(url) \in {".html", ".htm", "/"}

(* the responses of the crawl: the body of an HTML page can be one the
   parser raises on *)
CrawlFetchOutcomes(url) ==
    FetchOutcomes(url) \cup
        (IF IsHtml(url, MediaType(SiteResponse(url).ct)) THEN {Unparsable(url)} ELSE {})

(* lines 249-250: _fetch returns its response, or None when the request
   raised; the page counts as fetched either way *)
FetchReturns ==
    /\ pc = "fetching"
    /\ \E r \in CrawlFetchOutcomes(cur), d \in FetchTimes :
          /\ now' = now + d
          /\ resp' = r
          /\ reqLog' = [reqLog EXCEPT ![Len(reqLog)].res = Outcome(r)]
    /\ fetched' = fetched + 1
    /\ pc' = "got"
    /\ UNCHANGED <<cfg, env, run, ret, found, q, seen, cur, wakeAt, robots, last, saved, store,
                   manifest, robotsGets, enqLog, wk>>

(* lines 251-279: classification, _save_blob and the manifest line, link
   extraction. A write that raises is not caught and ends crawl(). *)
Process ==
    /\ pc = "got"
    /\ IF ~resp.ok
       THEN /\ pc' = "loop"
            /\ UNCHANGED <<q, seen, enqLog, store, manifest, saved>>
       ELSE LET ct      == MediaType(resp.ct)
                is_pdf  == IsPdf(cur, ct)
                is_html == IsHtml(cur, ct)
                f       == IF is_html
                           THEN EnqueueLinks(ParsedLinks(cur, resp), cfg,
                                             << q, seen, enqLog >>)
                           ELSE << q, seen, enqLog >>
            IN  \E o \in (IF is_pdf \/ is_html THEN SaveOutcomes ELSE {"ok"}) :
                   IF o # "ok"
                   THEN /\ pc' = "crashed"
                        /\ store' = _save_blob(store, cur, ct, o)
                        /\ UNCHANGED <<q, seen, enqLog, manifest, saved>>
                   ELSE /\ pc' = "loop"
                        /\ IF is_pdf \/ is_html
                           THEN /\ store' = _save_blob(store, cur, ct, "ok")
                                /\ manifest' = Append(manifest,
                                      [url |-> cur, content_type |-> ct,
                                       saved_path |-> SavedPath(cur, ct)])
                                /\ saved' = saved + 1
                           ELSE UNCHANGED <<store, manifest, saved>>
                        /\ q' = f[1]
                        /\ seen' = f[2]
                        /\ enqLog' = f[3]
    /\ UNCHANGED <<cfg, env, run, ret, found, now, cur, wakeAt, resp, robots, last, fetched, reqLog,
                   robotsGets, wk>>

(* line 241: the loop condition fails *)
Finish ==
    /\ pc = "loop"
    /\ (q = << >> \/ fetched >= cfg.max_pages)
    /\ pc' = "done"
    /\ UNCHANGED <<cfg, env, run, ret, found, now, q, seen, cur, wakeAt, resp, robots, last, fetched,
                   saved, store, manifest, reqLog, robotsGets, enqLog, wk>>

Next == CrawlStart \/ Dequeue \/ Wake \/ FetchReturns \/ Process \/ Finish

Spec == Init /\ [][Next]_vars

----------------------------------------------------------------------------
(* crawl() called again on the raw_dir a finished call left behind          *)

(* the configurations of the repeated runs: one seed, no sitemap discovery *)
ResumeConfigs == { c \in Configs : Len(c.seeds) = 1 /\ ~c.use_sitemaps }

InitResume == Init /\ cfg \in ResumeConfigs

(* lines 195-240 of a later call: raw_dir, its blobs and the manifest
   (opened for append) are what the call before left; seen, q, the limiter,
   the robots cache and the counters are new objects *)
Rerun ==
    /\ pc = "done"
    /\ run.n < MaxRuns
    /\ run' = [n |-> run.n + 1, reqs |-> Len(reqLog), lines |-> Len(manifest)]
    /\ pc' = "start"
    /\ q' = << >>
    /\ seen' = {}
    /\ cur' = None
    /\ wakeAt' = 0
    /\ resp' = NoResponse
    /\ robots' = EmptyRobotsCache
    /\ last' = << >>
    /\ fetched' = 0
    /\ saved' = 0
    /\ UNCHANGED <<cfg, env, ret, found, now, store, manifest, reqLog, robotsGets, enqLog, wk>>

NextResume == Next \/ Rerun

SpecResume == InitResume /\ [][NextResume]_vars

----------------------------------------------------------------------------
(* crawl() of scripts/crawl_pdfs_sync.py: a blocking loop                   *)

(* time.sleep(RATE_DELAY) with RATE_DELAY = 0.3, in ticks *)
RATE_DELAY == 3

(* looks_pdf: re.search(r"\.pdf(\?|$)", u, re.I) *)
looks_pdf(u) == PathSuffix(u.path) = ".pdf" /\ (u.query # "" \/ u.frag = "")

(* "application/pdf" in ct, on the headers of the model *)
HasApplicationPdf(ct) == ct \in {"application/pdf"}

(* is_allowed_host of the sync script *)
is_allowed_host(u, allowed_hosts) ==
    LET h == Hostname(u)
    IN  h = "scnat.ch" \/ h \in allowed_hosts \/ \E ah \in allowed_hosts : EndsWithDot(h, ah)

(* rp.read() of urllib.robotparser inside "try: ... except Exception: pass":
   the parser the script is left with for each way the request can end *)
rp_read(e) ==
    CASE e = "200" -> Parsed(RobotsDisallow)
      [] e = "403" -> DisallowAll
      [] e = "404" -> AllowAll
      [] OTHER     -> Unread

(* can_fetch of the sync script: the cache is keyed by the hostname *)
sync_can_fetch(rc, e, u) ==
    LET host == Hostname(u)
    IN  IF host \in DOMAIN rc.cache
        THEN [rc |-> rc, gets |-> << >>, ok |-> can_fetch(rc.cache[host], u)]
        ELSE LET rp == rp_read(e)
             IN  [rc   |-> [rc EXCEPT !.cache = (host :> rp) @@ rc.cache],
                  gets |-> << Url(u.scheme, host, 0, "/robots.txt", "", "") >>,
                  ok   |-> can_fetch(rp, u)]

(* "text/html" in ct or ct.startswith("text/"), on the headers of the model *)
SyncIsHtml(ct) == ct \in {"text/html", "text/html; charset=utf-8"}

(* the loop over the anchors of a page in the sync script; f is
   << q, enqLog >> *)
RECURSIVE SyncLinks(_, _, _, _, _)
SyncLinks(hrefs, u, c, sn, f) ==
    IF hrefs = << >> THEN f
    ELSE LET href == Head(hrefs)
             nu   == urldefrag(urljoin(u, href))
             skip == \/ href = EmptyHref
                     \/ href.scheme \in {"javascript", "mailto"}
                     \/ nu.scheme \notin {"http", "https"}
                     \/ ~is_allowed_host(nu, c.allow_domains)
                     \/ nu \in sn
         IN  SyncLinks(Tail(hrefs), u, c, sn,
                       IF skip THEN f ELSE << Append(f[1], nu), Append(f[2], nu) >>)

(* the two writes of the sync script inside try/except: pdf_path, then
   meta_path; an exception is swallowed *)
sync_save(st, u, outcome) ==
    LET sp == [kind |-> "", h |-> u, ext |-> ".pdf"]
    IN  CASE outcome = "blob_fails" -> [st EXCEPT !.blobs = @ \ {sp}, !.partial = @ \cup {sp}]
          [] outcome = "meta_fails" -> [st EXCEPT !.blobs = @ \cup {sp}, !.partial = @ \ {sp}]
          [] OTHER                  -> [st EXCEPT !.blobs = @ \cup {sp}, !.partial = @ \ {sp},
                                                  !.metas = @ \cup {[kind |-> "", h |-> u]}]

(* the sync script has seeds, allowed hosts and a page cap *)
SyncConfigs ==
    [seeds : SeedLists, allow_domains : {{"a.org"}}, include_subdomains : {TRUE},
     obey_robots_txt : {TRUE}, rate_limit_per_domain : {1},
     max_pages : 1..MaxPagesBound, use_sitemaps : {FALSE}]

InitSync ==
    /\ cfg \in SyncConfigs
    /\ env \in [robots : RobotsEnvs]
    /\ now \in StartTimes
    /\ pc = "start"
    /\ q = << >>
    /\ seen = {}
    /\ cur = None
    /\ wakeAt = 0
    /\ resp = NoResponse
    /\ robots = EmptyRobotsCache
    /\ last = << >>
    /\ fetched = 0
    /\ saved = 0
    /\ store = EmptyStore
    /\ manifest = << >>
    /\ reqLog = << >>
    /\ robotsGets = << >>
    /\ enqLog = << >>
    /\ wk = << >>
    /\ run = FirstRun
    /\ ret = NoCall
    /\ found = {}

(* line 58: every seed is put on the queue *)
SyncStart ==
    /\ pc = "start"
    /\ q' = cfg.seeds
    /\ enqLog' = cfg.seeds
    /\ pc' = "loop"
    /\ UNCHANGED <<cfg, env, run, ret, found, now, seen, cur, wakeAt, resp, robots, last, fetched, saved,
                   store, manifest, reqLog, robotsGets, wk>>

(* lines 60-69: take a URL, mark it seen, host and robots checks, the
   fixed delay, and the blocking request is sent *)
SyncDequeue ==
    /\ pc = "loop"
    /\ q # << >>
    /\ Cardinality(seen) < cfg.max_pages
    /\ LET u == Head(q)
           a == sync_can_fetch(robots, env.robots, u)
       IN  /\ q' = Tail(q)
           /\ IF u \in seen
              THEN UNCHANGED <<seen, robots, robotsGets, now, reqLog, cur, pc>>
              ELSE /\ seen' = seen \cup {u}
                   /\ IF ~is_allowed_host(u, cfg.allow_domains)
                      THEN UNCHANGED <<robots, robotsGets, now, reqLog, cur, pc>>
                      ELSE /\ robots' = a.rc
                           /\ robotsGets' = robotsGets \o a.gets
                           /\ IF ~a.ok
                              THEN UNCHANGED <<now, reqLog, cur, pc>>
                              ELSE /\ now' = now + RATE_DELAY
                                   /\ reqLog' = Append(reqLog, [url |-> u, t |-> now + RATE_DELAY,
                                                                res |-> "pending"])
                                   /\ cur' = u
                                   /\ pc' = "fetching"
    /\ UNCHANGED <<cfg, env, run, ret, found, wakeAt, resp, last, fetched, saved, store, manifest,
                   enqLog, wk>>

(* lines 42-47, 69: fetch returns (status, content type, body), or
   (None, "", b"") when the request raised *)
SyncFetchReturns ==
    /\ pc = "fetching"
    /\ \E r \in FetchOutcomes(cur), d \in FetchTimes :
          /\ now' = now + d
          /\ resp' = r
          /\ reqLog' = [reqLog EXCEPT ![Len(reqLog)].res = Outcome(r)]
    /\ pc' = "got"
    /\ UNCHANGED <<cfg, env, run, ret, found, q, seen, cur, wakeAt, robots, last, fetched, saved, store,
                   manifest, robotsGets, enqLog, wk>>

(* lines 70-107: a status other than 200 is dropped; a PDF is saved; the
   links of an HTML page are put on the queue *)
SyncProcess ==
    /\ pc = "got"
    /\ pc' = "loop"
    /\ IF ~resp.ok \/ resp.status # 200
       THEN UNCHANGED <<q, enqLog, store, saved>>
       ELSE IF HasApplicationPdf(resp.ct) \/ looks_pdf(cur)
       THEN /\ \E o \in SaveOutcomes :
                 /\ store' = sync_save(store, cur, o)
                 /\ saved' = IF o = "ok" THEN saved + 1 ELSE saved
            /\ UNCHANGED <<q, enqLog>>
       ELSE IF SyncIsHtml(resp.ct)
       THEN LET f == SyncLinks(resp.links, cur, cfg, seen, << q, enqLog >>)
            IN  /\ q' = f[1]
                /\ enqLog' = f[2]
                /\ UNCHANGED <<store, saved>>
       ELSE UNCHANGED <<q, enqLog, store, saved>>
    /\ UNCHANGED <<cfg, env, run, ret, found, now, seen, cur, wakeAt, resp, robots, last, fetched,
                   manifest, reqLog, robotsGets, wk>>

(* line 60: the loop condition fails *)
SyncFinish ==
    /\ pc = "loop"
    /\ (q = << >> \/ Cardinality(seen) >= cfg.max_pages)
    /\ pc' = "done"
    /\ UNCHANGED <<cfg, env, run, ret, found, now, q, seen, cur, wakeAt, resp, robots, last, fetched,
                   saved, store, manifest, reqLog, robotsGets, enqLog, wk>>

NextSync == SyncStart \/ SyncDequeue \/ SyncFetchReturns \/ SyncProcess \/ SyncFinish

SpecSync == InitSync /\ [][NextSync]_vars

----------------------------------------------------------------------------
(* RateLimiter.wait called by a pool of concurrent tasks of one event loop: *)
(* a task runs from one await to the next without interruption, and the     *)
(* clock goes on while tasks sleep                                          *)

Workers == 1..MaxWorkers

(* the URLs the tasks are about to request: two of one host, one of another *)
LimiterUrls == { Url("http", "a.org", 0, "/", "", ""),
                 Url("http", "a.org", 0, "/a", "", ""),
                 Url("http", "evil.com", 0, "/", "", "") }

(* the clock of the limiter model goes on in steps of the shortest
   interval, up to a horizon *)
TickStep == TicksPerSecond \div MaxRate
LimiterHorizon == 3 * TicksPerSecond

IdleWorker(n) == [pc |-> "idle", url |-> None, wakeAt |-> 0, calls |-> n]

InitLimiter ==
    /\ cfg \in [seeds : {<< >>}, allow_domains : {{"a.org"}}, include_subdomains : {TRUE},
                obey_robots_txt : {TRUE}, rate_limit_per_domain : Rates,
                max_pages : {MaxPagesBound}, use_sitemaps : {FALSE}]
    /\ env = [robots |-> "200"]
    /\ now = TicksPerSecond
    /\ pc = "pool"
    /\ q = << >>
    /\ seen = {}
    /\ cur = None
    /\ wakeAt = 0
    /\ resp = NoResponse
    /\ robots = EmptyRobotsCache
    /\ last = << >>
    /\ fetched = 0
    /\ saved = 0
    /\ store = EmptyStore
    /\ manifest = << >>
    /\ reqLog = << >>
    /\ robotsGets = << >>
    /\ enqLog = << >>
    /\ wk = [w \in Workers |-> IdleWorker(0)]
    /\ run = FirstRun
    /\ ret = NoCall
    /\ found = {}

(* lines 114-118, and 119 when there is nothing to sleep: the task reads
   the clock and the host's timestamp and either goes to sleep for the
   deficit or records the timestamp and returns *)
WaitEnter(w) ==
    /\ wk[w].pc = "idle"
    /\ wk[w].calls < MaxCalls
    /\ \E u \in LimiterUrls :
          LET deficit == WaitDeficit(last, cfg.rate_limit_per_domain, Netloc(u), now)
          IN  IF deficit > 0
              THEN /\ wk' = [wk EXCEPT ![w] = [pc |-> "sleep", url |-> u,
                                               wakeAt |-> now + deficit, calls |-> @.calls]]
                   /\ UNCHANGED <<last, reqLog>>
              ELSE /\ wk' = [wk EXCEPT ![w] = IdleWorker(@.calls + 1)]
                   /\ last' = (Netloc(u) :> now) @@ last
                   /\ reqLog' = Append(reqLog, [url |-> u, t |-> now, res |-> "pending"])
    /\ UNCHANGED <<cfg, env, run, ret, found, now, pc, q, seen, cur, wakeAt, resp, robots, fetched, saved,
                   store, manifest, robotsGets, enqLog>>

(* line 119: the sleep is over; the task records the time it reads now as
   the host's timestamp and returns, and its request goes out *)
WaitWake(w) ==
    /\ wk[w].pc = "sleep"
    /\ now >= wk[w].wakeAt
    /\ wk' = [wk EXCEPT ![w] = IdleWorker(@.calls + 1)]
    /\ last' = (Netloc(wk[w].url) :> now) @@ last
    /\ reqLog' = Append(reqLog, [url |-> wk[w].url, t |-> now, res |-> "pending"])
    /\ UNCHANGED <<cfg, env, run, ret, found, now, pc, q, seen, cur, wakeAt, resp, robots, fetched, saved,
                   store, manifest, robotsGets, enqLog>>

(* the clock goes on *)
Tick ==
    /\ now < LimiterHorizon
    /\ now' = now + TickStep
    /\ UNCHANGED <<cfg, env, run, ret, found, pc, q, seen, cur, wakeAt, resp, robots, last, fetched, saved,
                   store, manifest, reqLog, robotsGets, enqLog, wk>>

NextLimiter == (\E w \in Workers : WaitEnter(w) \/ WaitWake(w)) \/ Tick

SpecLimiter == InitLimiter /\ [][NextLimiter]_vars

(* C4: under any interleaving of the tasks, no two calls of RateLimiter.wait
   for one host return less than min_interval = 1/rate apart *)
C4_WaitsSpacedPerHost ==
    \A i, j \in DOMAIN reqLog :
        (i < j /\ Netloc(reqLog[i].url) = Netloc(reqLog[j].url)) =>
            cfg.rate_limit_per_domain * (reqLog[j].t - reqLog[i].t) >= TicksPerSecond

----------------------------------------------------------------------------
(* gather_from_sitemaps of scripts/crawl_pdfs_sitemaps_first.py, called by  *)
(* main for the host scnat.ch, whose sitemap documents refer to each other  *)

(* RETRIES = 3, and time.sleep(0.5) in ticks *)
RETRIES == 3
RetrySleep == 5

(* ALLOWED *)
ALLOWED == {"scnat.ch", "portal-cdn.scnat.ch"}

SmUrl(path, query) == Url("https", "scnat.ch", 0, path, query, "")

(* the Sitemap: lines of robots.txt of scnat.ch *)
SmRobotsMaps == << SmUrl("/sitemap.xml", "") >>

(* the <loc> entries of the sitemap documents of scnat.ch: the index lists
   itself and a sitemap that lists the index *)
SmDocLocs(path) ==
    CASE path = "/sitemap.xml"       -> << SmUrl("/sitemap_index.xml", ""), SmUrl("/doc.pdf", ""),
                                           Url("https", "SCNAT.CH", 443, "/doc.pdf", "", ""),
                                           SmUrl("/a", "") >>
      [] path = "/sitemap_index.xml" -> << SmUrl("/sitemap.xml", ""), SmUrl("/sitemap_index.xml", ""),
                                           SmUrl("/news.xml", "") >>
      [] path = "/news.xml"          -> << SmUrl("/report.pdf", "v=2"),
                                           Url("https", "evil.com", 0, "/doc.pdf", "", "") >>
      [] OTHER                       -> << >>

SmDocPaths == {"/sitemap.xml", "/sitemap_index.xml"}

(* the answer of the server to a request for a sitemap URL *)
SmResponse(sm) ==
    IF Hostname(sm) = "scnat.ch" /\ sm.path \in SmDocPaths
    THEN [ok |-> TRUE, status |-> 200, ct |-> "application/xml", links |-> SmDocLocs(sm.path),
          parses |-> TRUE]
    ELSE [ok |-> TRUE, status |-> 404, ct |-> "text/html", links |-> << >>, parses |-> TRUE]

(* u.endswith(".xml") *)
EndsWithXml(u) ==
    u.path \in {"/sitemap.xml", "/sitemap_index.xml", "/news.xml"} /\ u.query = "" /\ u.frag = ""

(* get_robots_sitemaps: rp.site_maps() of the robots.txt read, or nothing
   when it could not be read, then the two common locations not yet listed *)
get_robots_sitemaps(host, e) ==
    LET maps   == IF e = "200" THEN SmRobotsMaps ELSE << >>
        common == << Url("https", host, 0, "/sitemap.xml", "", ""),
                     Url("https", host, 0, "/sitemap_index.xml", "", "") >>
    IN  maps \o SelectSeq(common, LAMBDA c : c \notin Range(maps))

(* is_allowed_host of the sitemaps-first script *)
sf_is_allowed_host(u) ==
    Hostname(u) \in ALLOWED \/ \E dd \in ALLOWED : EndsWithDot(Hostname(u), dd)

(* the test "sm in seen_maps" answering False for every sitemap *)
SeenMap_never(sm, seen_maps) == FALSE

(* line 113: sm in seen_maps *)
SeenMap(sm, seen_maps) == sm \in seen_maps

(* the requests fetch has made for the sitemap it is fetching *)
Attempts(log, sm) == Cardinality({ i \in DOMAIN log : log[i].url = sm })

InitSitemaps ==
    /\ cfg \in [seeds : {<< >>}, allow_domains : {ALLOWED}, include_subdomains : {TRUE},
                obey_robots_txt : {TRUE}, rate_limit_per_domain : {1},
                max_pages : {MaxPagesBound}, use_sitemaps : {TRUE}]
    /\ env \in [robots : {"200", "404"}, failure : {"error status", "raised"}]
    /\ now = TicksPerSecond
    /\ pc = "start"
    /\ q = << >>
    /\ seen = {}
    /\ cur = None
    /\ wakeAt = 0
    /\ resp = NoResponse
    /\ robots = EmptyRobotsCache
    /\ last = << >>
    /\ fetched = 0
    /\ saved = 0
    /\ store = EmptyStore
    /\ manifest = << >>
    /\ reqLog = << >>
    /\ robotsGets = << >>
    /\ enqLog = << >>
    /\ wk = << >>
    /\ run = FirstRun
    /\ ret = NoCall
    /\ found = {}

(* lines 101-108: the sitemaps robots.txt names and the common locations
   are put on to_visit *)
GatherStart ==
    /\ pc = "start"
    /\ q' = get_robots_sitemaps("scnat.ch", env.robots)
    /\ robotsGets' = << Url("https", "scnat.ch", 0, "/robots.txt", "", "") >>
    /\ pc' = "loop"
    /\ UNCHANGED <<cfg, env, run, ret, found, now, seen, cur, wakeAt, resp, robots, last,
                   fetched, saved, store, manifest, reqLog, enqLog, wk>>

(* lines 111-116: to_visit.pop() takes the last element; a sitemap seen
   before is skipped, a new one is marked seen and fetch is called *)
GatherPop ==
    /\ pc = "loop"
    /\ q # << >>
    /\ LET sm == q[Len(q)]
       IN  /\ q' = SubSeq(q, 1, Len(q) - 1)
           /\ IF SeenMap(sm, seen)
              THEN UNCHANGED <<seen, cur, pc>>
              ELSE /\ seen' = seen \cup {sm}
                   /\ cur' = sm
                   /\ pc' = "fetching"
    /\ UNCHANGED <<cfg, env, run, ret, found, now, wakeAt, resp, robots, last, fetched, saved,
                   store, manifest, reqLog, robotsGets, enqLog, wk>>

(* lines 73-81: one pass of the loop of fetch: a request; status 200 returns
   the response, any other status goes to the next pass at once, an
   exception sleeps 0.5 s first; after RETRIES passes fetch returns None *)
FetchAttempt ==
    /\ pc = "fetching"
    /\ \E res \in {"answered", "failed"} :
          LET r    == SmResponse(cur)
              good == res = "answered" /\ r.status = 200
              out  == IF good THEN "200"
                      ELSE IF res = "answered" THEN "error status" ELSE env.failure
              n    == Attempts(reqLog, cur) + 1
          IN  /\ reqLog' = Append(reqLog, [url |-> cur, t |-> now, res |-> out])
              /\ now' = IF out = "raised" THEN now + RetrySleep ELSE now
              /\ IF good
                 THEN resp' = r /\ pc' = "got"
                 ELSE IF n >= RETRIES
                 THEN resp' = NoResponse /\ pc' = "got"
                 ELSE UNCHANGED <<resp, pc>>
    /\ UNCHANGED <<cfg, env, run, ret, found, q, seen, cur, wakeAt, robots, last, fetched,
                   saved, store, manifest, robotsGets, enqLog, wk>>

(* lines 117-131: nothing for a failed fetch; otherwise the nested sitemaps
   go on to_visit and the allowed PDF URLs among the pages go into found *)
GatherProcess ==
    /\ pc = "got"
    /\ pc' = "loop"
    /\ IF ~resp.ok
       THEN UNCHANGED <<q, found>>
       ELSE LET urls   == resp.links
                nested == SelectSeq(urls, EndsWithXml)
                pages  == { urldefrag(u) : u \in { x \in Range(urls) : ~EndsWithXml(x) } }
            IN  /\ q' = q \o nested
                /\ found' = found \cup { u \in pages : sf_is_allowed_host(u) /\ looks_pdf(u) }
    /\ UNCHANGED <<cfg, env, run, ret, now, seen, cur, wakeAt, resp, robots, last, fetched,
                   saved, store, manifest, reqLog, robotsGets, enqLog, wk>>

(* line 110: to_visit is empty, found is returned *)
GatherFinish ==
    /\ pc = "loop"
    /\ q = << >>
    /\ pc' = "done"
    /\ UNCHANGED <<cfg, env, run, ret, found, now, q, seen, cur, wakeAt, resp, robots, last,
                   fetched, saved, store, manifest, reqLog, robotsGets, enqLog, wk>>

NextSitemaps == GatherStart \/ GatherPop \/ FetchAttempt \/ GatherProcess \/ GatherFinish

(* the script runs on: a step that can be taken is taken *)
SpecSitemaps == InitSitemaps /\ [][NextSitemaps]_vars /\ WF_vars(NextSitemaps)

----------------------------------------------------------------------------
(* The helper functions of crawl.py called on their own: _norm_url,         *)
(* _domain_allowed and the classification of lines 254-258                  *)

(* the bases and hrefs given to _norm_url *)
NormBases == { EmptyHref,
               Url("http", "a.org", 0, "/p", "x=1", ""),
               Url("https", "A.ORG", 443, "/d", "", "") }

NormHrefs == { EmptyHref, Mailto,
               Url("javascript", "", 0, "void(0)", "", ""),
               Rel("/a", "x"), Rel("", "f"),
               Url("http", "A.ORG", 80, "/", "", "top"),
               Url("https", "a.org", 443, "/x", "", ""),
               Url("http", "a.org", 8080, "/", "", ""),
               Url("http", "a.org", 0, "/report.pdf", "v=2", ""),
               Url("http", "[::1]", 0, "/x", "", ""),
               Url("httpx", "h", 0, "/p", "", ""),
               Url("http", "", 0, "/path", "", "") }

(* the URLs and allow-lists given to _domain_allowed *)
PolicyUrls == { Url("http", h, 0, "/x", "", "") :
                  h \in {"a.org", "A.ORG", "sub.a.org", "SUB.A.ORG", "nota.org", "evil.com", ""} }

AllowEntries == {"a.org", "A.ORG", ".a.org", "sub.a.org"}
AllowLists == { {e} : e \in AllowEntries } \cup {{}, {"a.org", "evil.com"}}

(* the URLs and Content-Type headers given to the classification *)
ClassifyUrls == { Url("http", "a.org", 0, "/doc.pdf", "", ""),
                  Url("http", "a.org", 0, "/report.pdf", "v=2", ""),
                  Url("http", "a.org", 0, "/", "", ""),
                  Url("http", "a.org", 0, "/a", "", ""),
                  Url("http", "a.org", 0, "/b", "", "") }

ClassifyCTs == { "text/html; charset=utf-8", "text/html", "application/pdf",
                 "application/x-pdf", "application/octet-stream", "image/png", "" }

(* lines 254-258 and _guess_kind: the two tests of the loop and the kind a
   saved document is stored as; "other" is a response that is not saved *)
Classify(url, header) ==
    LET ct      == MediaType(header)
        is_pdf  == IsPdf(url, ct)
        is_html == IsHtml(url, ct)
    IN  [is_pdf |-> is_pdf, is_html |-> is_html,
         kind |-> IF is_pdf \/ is_html THEN _guess_kind(url, ct) ELSE "other"]

InitFunctions ==
    /\ cfg \in [seeds : {<< >>}, allow_domains : {{"a.org"}}, include_subdomains : {TRUE},
                obey_robots_txt : {TRUE}, rate_limit_per_domain : {1},
                max_pages : {MaxPagesBound}, use_sitemaps : {FALSE}]
    /\ env = [robots |-> "200"]
    /\ now = TicksPerSecond
    /\ pc = "call"
    /\ q = << >>
    /\ seen = {}
    /\ cur = None
    /\ wakeAt = 0
    /\ resp = NoResponse
    /\ robots = EmptyRobotsCache
    /\ last = << >>
    /\ fetched = 0
    /\ saved = 0
    /\ store = EmptyStore
    /\ manifest = << >>
    /\ reqLog = << >>
    /\ robotsGets = << >>
    /\ enqLog = << >>
    /\ wk = << >>
    /\ run = FirstRun
    /\ ret = NoCall
    /\ found = {}

(* _norm_url(base, href) *)
CallNormUrl ==
    /\ pc = "call"
    /\ \E base \in NormBases, href \in NormHrefs :
          ret' = [fn |-> "_norm_url", args |-> << base, href >>,
                  value |-> _norm_url(base, href)]
    /\ pc' = "returned"
    /\ UNCHANGED <<cfg, env, run, found, now, q, seen, cur, wakeAt, resp, robots, last, fetched,
                   saved, store, manifest, reqLog, robotsGets, enqLog, wk>>

(* _norm_url(base, u) for a URL u that _norm_url returned *)
CallNormUrlAgain ==
    /\ pc = "returned"
    /\ ret.fn = "_norm_url"
    /\ ret.value # None
    /\ \E base \in NormBases :
          ret' = [fn |-> "_norm_url", args |-> << base, ret.value >>,
                  value |-> _norm_url(base, ret.value)]
    /\ pc' = "renormalised"
    /\ UNCHANGED <<cfg, env, run, found, now, q, seen, cur, wakeAt, resp, robots, last, fetched,
                   saved, store, manifest, reqLog, robotsGets, enqLog, wk>>

(* _domain_allowed(url, allow_domains, include_subdomains) *)
CallDomainAllowed ==
    /\ pc = "call"
    /\ \E url \in PolicyUrls, allow \in AllowLists, incl \in BOOLEAN :
          ret' = [fn |-> "_domain_allowed", args |-> << url, allow, incl >>,
                  value |-> _domain_allowed(url, allow, incl)]
    /\ pc' = "returned"
    /\ UNCHANGED <<cfg, env, run, found, now, q, seen, cur, wakeAt, resp, robots, last, fetched,
                   saved, store, manifest, reqLog, robotsGets, enqLog, wk>>

(* the classification of a response for url with a Content-Type header *)
CallClassify ==
    /\ pc = "call"
    /\ \E url \in ClassifyUrls, header \in ClassifyCTs :
          ret' = [fn |-> "classify", args |-> << url, header >>,
                  value |-> Classify(url, header)]
    /\ pc' = "returned"
    /\ UNCHANGED <<cfg, env, run, found, now, q, seen, cur, wakeAt, resp, robots, last, fetched,
                   saved, store, manifest, reqLog, robotsGets, enqLog, wk>>

NextFunctions == CallNormUrl \/ CallNormUrlAgain \/ CallDomainAllowed \/ CallClassify

SpecFunctions == InitFunctions /\ [][NextFunctions]_vars

----------------------------------------------------------------------------
(* Properties of crawl() *)

(* the host a request goes to: scheme, lower-cased name and effective port *)
EffectivePort(u) == IF u.port # 0 THEN u.port ELSE IF u.scheme = "https" THEN 443 ELSE 80
ServerOf(u) == [scheme |-> u.scheme, host |-> Lower(u.host), port |-> EffectivePort(u)]

(* the number of positions of a sequence that hold x *)
Count(seq, x) == Cardinality({ i \in DOMAIN seq : seq[i] = x })

(* C1: with obey-robots on, no page request is ever sent for a URL that the
   robots.txt its host serves (status 200) disallows *)
C1_DisallowedNeverFetched ==
    (cfg.obey_robots_txt /\ env.robots = "200") =>
        \A i \in DOMAIN reqLog :
            ~(Hostname(reqLog[i].url) = "a.org" /\ reqLog[i].url.path \in RobotsDisallow)

(* C3: in one run robots.txt is requested at most once per host, the
   sitemap-seeding step and the robots checks of the loop taken together *)
C3_RobotsRequestedOncePerHost ==
    \A i, j \in DOMAIN robotsGets :
        i # j => ServerOf(robotsGets[i]) # ServerOf(robotsGets[j])

(* C5: any N page requests the crawl sends to one host are spread over at
   least (N-1)/r seconds, r the configured rate *)
C5_RequestsSpreadByRate ==
    \A i, j \in DOMAIN reqLog :
        (i < j /\ ServerOf(reqLog[i].url) = ServerOf(reqLog[j].url)) =>
            LET n == Cardinality({ k \in i..j : ServerOf(reqLog[k].url) = ServerOf(reqLog[i].url) })
            IN  cfg.rate_limit_per_domain * (reqLog[j].t - reqLog[i].t)
                    >= (n - 1) * TicksPerSecond

(* C6: every URL is appended to the frontier queue at most once in a run,
   the sitemap URLs, the seeds and the extracted links counted together *)
C6_EnqueuedAtMostOnce ==
    \A i, j \in DOMAIN enqLog : i # j => enqLog[i] # enqLog[j]

(* C8: no retry: at most one page request is sent for any URL in a run *)
C8_OneRequestPerUrl ==
    \A i, j \in DOMAIN reqLog : i # j => reqLog[i].url # reqLog[j].url

(* C10: crawl() ends only with the queue empty or the page cap reached *)
C10_EndsOnlyOnEmptyOrCap ==
    pc \in {"done", "crashed"} => (q = << >> \/ fetched >= cfg.max_pages)

(* the URL an href of a page stands for, fragment dropped: resolved against
   the page, host lower-cased, default port dropped *)
TargetOf(page, href) ==
    LET u == urldefrag(urljoin(page, href))
    IN  [u EXCEPT !.host = Lower(u.host),
                  !.port = IF IsDefaultPort(u.scheme, u.port) THEN 0 ELSE u.port]

(* the pairs of hrefs of a page that differ only in their fragment *)
FragmentTwins(hrefs) ==
    { p \in (DOMAIN hrefs) \X (DOMAIN hrefs) :
        /\ p[1] < p[2]
        /\ hrefs[p[1]] # hrefs[p[2]]
        /\ urldefrag(hrefs[p[1]]) = urldefrag(hrefs[p[2]]) }

(* the entries a step appends to the queue that name target t, whatever
   their fragment *)
NewEntriesFor(t) ==
    { k \in (Len(q) + 1)..Len(q') : urldefrag(q'[k]) = t }

(* C7: when the links of a page parsed as HTML differ only in their
   fragment, the step that extracts and enqueues them appends their common
   target exactly once if it is allow-listed and was not seen, and not at
   all otherwise; a target appended is then in the queue exactly once *)
C7_FragmentTwinsEnqueuedOnce ==
    [][ (pc = "got" /\ pc' = "loop" /\ resp.ok /\ resp.parses
                    /\ IsHtml(cur, MediaType(resp.ct))) =>
          \A p \in FragmentTwins(resp.links) :
             LET t == TargetOf(cur, resp.links[p[1]])
                 fresh == /\ t \notin seen
                          /\ Lower(t.host) \in cfg.allow_domains
             IN  /\ Cardinality(NewEntriesFor(t)) = (IF fresh THEN 1 ELSE 0)
                 /\ fresh => Count(q', t) = 1 ]_vars

(* a page with fragment twins was processed and their target is queued *)
C7_Witness ==
    /\ pc = "loop"
    /\ resp.ok
    /\ resp.parses
    /\ FragmentTwins(resp.links) # {}
    /\ \E p \in FragmentTwins(resp.links) : Count(q, TargetOf(cur, resp.links[p[1]])) = 1

----------------------------------------------------------------------------
(* Properties of the domain policy in a run *)

(* the Domain Policy for the configured allow-list: the host, lower-cased,
   is an entry or, with subdomains on, a subdomain of an entry *)
DomainPolicy(u, c) ==
    \E dom \in c.allow_domains :
        \/ Lower(u.host) = dom
        \/ c.include_subdomains /\ EndsWithDot(Lower(u.host), dom)

(* C18: every URL a page request is sent for satisfies the Domain Policy
   of the run *)
C18_RequestsAllowListed ==
    \A i \in DOMAIN reqLog : DomainPolicy(reqLog[i].url, cfg)

----------------------------------------------------------------------------
(* Properties of the processing of a response *)

(* neither of the tests of lines 256-257 holds for the response: its media
   type is no HTML and no PDF type and its URL has none of the suffixes *)
OtherKind(url, header) ==
    /\ MediaType(header) \notin HTML_CT \cup PDF_CT
    /\ UrlSuffix(url) \notin {".pdf", ".html", ".htm", "/"}

(* C13: processing a response that crawl() classifies neither pdf nor html
   writes no blob and no sidecar, appends no manifest line and extracts no
   link: store, manifest, queue and seen set stay as they were *)
C13_OtherLeavesNoTrace ==
    [][ (pc = "got" /\ resp.ok /\ OtherKind(cur, resp.ct)) =>
          /\ store' = store
          /\ manifest' = manifest
          /\ saved' = saved
          /\ q' = q
          /\ seen' = seen
          /\ pc' = "loop" ]_vars

(* a response of kind other was processed *)
C13_Witness ==
    /\ pc = "loop"
    /\ fetched > 0
    /\ resp.ok
    /\ resp.status = 200
    /\ OtherKind(cur, resp.ct)
    /\ reqLog[Len(reqLog)].url = cur

(* C14: a fetch that ends in a non-2xx status or in a network error or
   timeout raises nothing and leaves no trace: no blob, no sidecar, no
   manifest line, no link extracted, and the loop goes on *)
C14_FailedFetchLeavesNoTrace ==
    [][ (pc = "got" /\ (~resp.ok \/ resp.status \notin 200..299)) =>
          /\ store' = store
          /\ manifest' = manifest
          /\ saved' = saved
          /\ q' = q
          /\ seen' = seen
          /\ pc' = "loop" ]_vars

----------------------------------------------------------------------------
(* Properties of the page cap and of the robots failure policy *)

(* the targets of the links of the page the site serves at u as HTML *)
SiteSucc(u) ==
    IF Hostname(u) = "a.org" /\ u.path \in PagePaths /\ MediaType(PageCT(u.path)) \in HTML_CT
    THEN { TargetOf(u, h) : h \in { x \in Range(PageLinks(u.path)) :
                                      x # EmptyHref /\ urljoin(u, x).scheme \in {"http", "https"} } }
    ELSE {}

(* allow-listed and not disallowed by the robots.txt of its host *)
AllowedPage(u, c) ==
    /\ _domain_allowed(u, c.allow_domains, c.include_subdomains)
    /\ ~(Hostname(u) = "a.org" /\ u.path \in RobotsDisallow)

RECURSIVE ReachFrom(_, _)
ReachFrom(S, c) ==
    LET N == S \cup { v \in UNION { SiteSucc(u) : u \in S } : AllowedPage(v, c) }
    IN  IF N = S THEN S ELSE ReachFrom(N, c)

(* the allowed pages reachable from the seeds by following links *)
ReachableAllowed(c) ==
    ReachFrom({ u \in { TargetOf(s, s) : s \in Range(c.seeds) } : AllowedPage(u, c) }, c)

(* C9: the requests of a run never exceed max_pages, and a run that ends
   with every request answered 200, on a site with at least max_pages
   allowed reachable pages, has sent exactly max_pages requests *)
C9_CapReachedExactly ==
    /\ Len(reqLog) <= cfg.max_pages
    /\ ( /\ pc = "done"
         /\ env.robots = "200"
         /\ \A i \in DOMAIN reqLog : reqLog[i].res = "200"
         /\ Cardinality(ReachableAllowed(cfg)) >= cfg.max_pages )
       => Len(reqLog) = cfg.max_pages

(* C2: fail-open: once the robots.txt request of a host has failed, the
   robots check allows every URL of that host *)
C2_RobotsFailOpen ==
    env.robots # "200" =>
        \A k \in DOMAIN robots.cache : \A pa \in PagePaths :
            can_fetch(robots.cache[k], Url("http", "a.org", 0, pa, "", ""))

----------------------------------------------------------------------------
(* Properties of repeated runs *)

(* C11: a later run on the same seeds, site and raw_dir sends no request for
   a URL the runs before it persisted, and appends no manifest line *)
C11_SecondRunFetchesNothing ==
    run.n > 1 =>
        /\ \A i \in (run.reqs + 1)..Len(reqLog) :
              \A k \in 1..run.lines : reqLog[i].url # manifest[k].url
        /\ Len(manifest) = run.lines

----------------------------------------------------------------------------
(* Properties of the helper functions *)

(* C12: a response is classified pdf exactly when its content type contains
   "pdf" or the path of its URL ends in .pdf, whatever query follows; and a
   response with Content-Type "text/html; charset=utf-8" whose URL is no
   .pdf is classified html *)
C12_ClassifiedPdfIff ==
    ret.fn = "classify" =>
        LET url    == ret.args[1]
            header == ret.args[2]
            pdf    == ContainsPdf(MediaType(header)) \/ PathSuffix(url.path) = ".pdf"
        IN  /\ ret.value.is_pdf <=> pdf
            /\ (header = "text/html; charset=utf-8" /\ ~pdf) => ret.value.kind = "html"

(* C15: normalising a URL that _norm_url returned, against any base, gives
   that URL again *)
C15_NormIdempotent ==
    pc = "renormalised" => ret.value = ret.args[2]

(* C16: what _norm_url returns is None or a URL with scheme http or https,
   no fragment, a non-empty lower-cased host and no default port; an empty
   href and a reference that resolves to another scheme give None *)
C16_NormResultWellFormed ==
    ret.fn = "_norm_url" =>
        LET v    == ret.value
            href == ret.args[2]
            absu == urljoin(ret.args[1], href)
        IN  /\ v # None =>
                  /\ v.scheme \in {"http", "https"}
                  /\ v.frag = ""
                  /\ v.host # ""
                  /\ v.host = Lower(v.host)
                  /\ ~IsDefaultPort(v.scheme, v.port)
            /\ (href = EmptyHref \/ absu.scheme \notin {"http", "https"}) => v = None

(* an allow-list entry without its leading dot *)
NoLeadingDot(dom) == IF dom = ".a.org" THEN "a.org" ELSE dom

(* C17 as stated: _domain_allowed is true exactly when the host, compared
   without regard to case, equals an entry of the allow-list or, with
   subdomains on, ends in "." plus an entry *)
C17_DomainAllowedIffEntry ==
    ret.fn = "_domain_allowed" =>
        LET host == Lower(ret.args[1].host)
        IN  ret.value <=>
              \E dom \in ret.args[2] :
                 \/ host = Lower(dom)
                 \/ ret.args[3] /\ EndsWithDot(host, Lower(dom))

(* C17 amended: _domain_allowed is true exactly when the host, compared
   without regard to case, equals an entry of the allow-list taken without
   its leading dots or, with subdomains on, ends in "." plus such an entry;
   for the allow-list [a.org], sub.a.org passes only with subdomains on and
   nota.org never passes *)
C17_DomainAllowedIffStripped ==
    ret.fn = "_domain_allowed" =>
        LET host == Lower(ret.args[1].host)
        IN  /\ ret.value <=>
                  \E dom \in ret.args[2] :
                     \/ host = NoLeadingDot(Lower(dom))
                     \/ ret.args[3] /\ EndsWithDot(host, NoLeadingDot(Lower(dom)))
            /\ (ret.args[2] = {"a.org"} /\ host = "sub.a.org") => (ret.value <=> ret.args[3])
            /\ (ret.args[2] = {"a.org"} /\ host = "nota.org") => ~ret.value

(* _domain_allowed let a subdomain of the only entry pass, subdomains on *)
C17_Witness ==
    /\ ret.fn = "_domain_allowed"
    /\ ret.args[2] = {"a.org"}
    /\ ret.args[1].host = "SUB.A.ORG"
    /\ ret.args[3]
    /\ ret.value

----------------------------------------------------------------------------
(* Properties of sitemap discovery *)

(* C19: a sitemap URL is requested at most once during sitemap discovery *)
C19_SitemapRequestedOnce ==
    \A i, j \in DOMAIN reqLog : i # j => reqLog[i].url # reqLog[j].url

(* C20: gather_from_sitemaps comes to its end although the sitemap
   documents refer to each other and to themselves: every fetch it starts
   is for a sitemap URL it had not seen, of which there are finitely many *)
C20_GatherTerminates ==
    /\ <>(pc = "done")
    /\ [][ (pc = "loop" /\ pc' = "fetching") => (cur' \notin seen /\ cur' \in seen') ]_vars

(* discovery ended after it met the self-reference and the cycle: the index
   and the sitemap it lists were both expanded *)
C20_Witness ==
    /\ pc = "done"
    /\ \E i, j \in DOMAIN reqLog :
          /\ reqLog[i].url = SmUrl("/sitemap_index.xml", "") /\ reqLog[i].res = "200"
          /\ reqLog[j].url = SmUrl("/sitemap.xml", "") /\ reqLog[j].res = "200"

----------------------------------------------------------------------------
(* C21: every leaf URL taken from a sitemap and handed on for fetching is   *)
(* in the form the URL Normalizer gives it (no fragment, lower-case host,   *)
(* no default port) and passes the Domain Policy. crawl() of crawl.py       *)
(* applies only _domain_allowed to the discovered URLs (lines 229-232), and *)
(* gather_from_sitemaps applies only urldefrag and is_allowed_host.         *)
C21_SitemapLeavesNormalized ==
    \A u \in found : /\ _norm_url(EmptyHref, u) = u
                     /\ sf_is_allowed_host(u)

----------------------------------------------------------------------------
(* The Persister and the manifest within one call of crawl() *)

(* C22: a write failure of the Persister is caught where it happens and the
   crawl goes on: whatever came of the save, after a response is processed
   crawl() is back at its loop over the remaining frontier URLs *)
C22_CrawlGoesOnAfterWriteFailure ==
    [][ pc = "got" => pc' = "loop" ]_vars

(* the documents persisted: blob and sidecar both on disk *)
Persisted == { sp \in store.blobs : [kind |-> sp.kind, h |-> sp.h] \in store.metas }

(* C23: one manifest entry per persisted document: the lines appended in
   the run are as many as the documents persisted, and no URL has two *)
C23_OneManifestEntryPerDocument ==
    /\ Len(manifest) = Cardinality(Persisted)
    /\ \A i, j \in DOMAIN manifest : i # j => manifest[i].url # manifest[j].url

(* C24: at every point of the run every manifest entry refers to a document
   whose blob and sidecar are completely written, and a document whose
   write failed has no entry *)
C24_ManifestEntriesAreComplete ==
    \A i \in DOMAIN manifest :
        /\ manifest[i].saved_path \in Persisted
        /\ manifest[i].saved_path \notin store.partial

(* C25: whatever write fails, no blob path of the store holds the bytes of
   an unfinished write *)
C25_NoPartialBlob ==
    store.partial = {}

----------------------------------------------------------------------------
(* crawl() of scripts/crawl_pdfs.py: a pool of worker coroutines on one     *)
(* event loop, sharing the queue to_visit, the set seen and robots_cache.   *)
(* A worker runs from one await to the next without interruption; the       *)
(* semaphore has as many slots as there are workers and never makes one     *)
(* wait. A call that does not await (rp.read() of urllib.robotparser)       *)
(* keeps the event loop, and so every worker, until it returns.             *)

(* the timeout of asyncio.wait_for(to_visit.get(), timeout=1.0), in ticks *)
GetTimeout == TicksPerSecond

(* SESSION_TIMEOUT = 20, in ticks *)
SESSION_TIMEOUT == 20 * TicksPerSecond

(* the times rp.read() can take: urlopen is called without a timeout *)
RobotsReadTimes == {0, 3 * TicksPerSecond}

(* a worker at "await asyncio.wait_for(to_visit.get(), ...)" since time t *)
Waiting(t) == [pc |-> "idle", url |-> None, due |-> t + GetTimeout]

(* a worker that returned from worker(), and why *)
Exited(why) == [pc |-> why, url |-> None, due |-> 0]

(* a synchronous call is in progress on the event loop *)
LoopBlocked == \E w \in Workers : wk[w].pc = "robots"

(* "text/html" in ct, on the headers of the model *)
PoolIsHtml(ct) == ct \in {"text/html", "text/html; charset=utf-8"}

(* norm_url of crawl_pdfs.py: urljoin, then urldefrag *)
norm_url(base, href) == urldefrag(urljoin(base, href))

(* the loop over parser.links of the worker; LinkExtractor keeps the hrefs
   that are not empty; f is << to_visit, enqLog >> *)
RECURSIVE PoolLinks(_, _, _, _, _)
PoolLinks(hrefs, u, c, sn, f) ==
    IF hrefs = << >> THEN f
    ELSE LET href == Head(hrefs)
             nu   == norm_url(u, href)
             put  == /\ href # EmptyHref
                     /\ is_allowed_host(nu, c.allow_domains)
                     /\ nu \notin sn
                     /\ nu.scheme \in {"http", "https"}
         IN  PoolLinks(Tail(hrefs), u, c, sn,
                       IF put THEN << Append(f[1], nu), Append(f[2], nu) >> ELSE f)

(* the --seed arguments of the script: those of crawl() and one of a.org
   over https *)
PoolSeeds == RawSeeds \cup { Url("https", "a.org", 0, "/b", "", "") }

PoolSeedLists == UNION { [1..n -> PoolSeeds] : n \in 1..MaxSeeds }

PoolConfigs ==
    [seeds : PoolSeedLists, allow_domains : {{"a.org"}}, include_subdomains : {TRUE},
     obey_robots_txt : {TRUE}, rate_limit_per_domain : {1},
     max_pages : 1..MaxPagesBound, use_sitemaps : {FALSE}]

InitPool ==
    /\ cfg \in PoolConfigs
    /\ env \in [robots : {"200", "net_error"}]
    /\ now = TicksPerSecond
    /\ pc = "start"
    /\ q = << >>
    /\ seen = {}
    /\ cur = None
    /\ wakeAt = 0
    /\ resp = NoResponse
    /\ robots = EmptyRobotsCache
    /\ last = << >>
    /\ fetched = 0
    /\ saved = 0
    /\ store = EmptyStore
    /\ manifest = << >>
    /\ reqLog = << >>
    /\ robotsGets = << >>
    /\ enqLog = << >>
    /\ wk = [w \in Workers |-> Exited("new")]
    /\ run = FirstRun
    /\ ret = NoCall
    /\ found = {}

(* lines 65-68, 160: the seeds are put on to_visit and the workers are
   created; each starts by waiting for an item *)
PoolStart ==
    /\ pc = "start"
    /\ q' = cfg.seeds
    /\ enqLog' = cfg.seeds
    /\ wk' = [w \in Workers |-> Waiting(now)]
    /\ pc' = "pool"
    /\ UNCHANGED <<cfg, env, run, ret, found, now, seen, cur, wakeAt, resp, robots, last,
                   fetched, saved, store, manifest, reqLog, robotsGets>>

(* line 102: "u in seen" *)
InSeen_never(u, sn) == FALSE

InSeen(u, sn) == u \in sn

(* line 107: "len(seen) > MAX_PAGES" *)
OverCap_never(sn, c) == FALSE

OverCap(sn, c) == Cardinality(sn) > c.max_pages

(* lines 99-115: to_visit.get() returns an item; the seen test, the cap on
   len(seen), the host test and can_fetch, which reads robots.txt when the
   host is not in robots_cache; then asyncio.sleep(RATE_DELAY) *)
PoolGet(w) ==
    /\ pc = "pool"
    /\ ~LoopBlocked
    /\ wk[w].pc = "idle"
    /\ q # << >>
    /\ LET u == Head(q)
       IN  /\ q' = Tail(q)
           /\ IF InSeen(u, seen)
              THEN /\ wk' = [wk EXCEPT ![w] = Waiting(now)]
                   /\ UNCHANGED <<seen, robotsGets>>
              ELSE /\ seen' = seen \cup {u}
                   /\ IF OverCap(seen \cup {u}, cfg)
                      THEN /\ wk' = [wk EXCEPT ![w] = Exited("capped")]
                           /\ UNCHANGED robotsGets
                      ELSE IF ~is_allowed_host(u, cfg.allow_domains)
                      THEN /\ wk' = [wk EXCEPT ![w] = Waiting(now)]
                           /\ UNCHANGED robotsGets
                      ELSE IF Hostname(u) \notin DOMAIN robots.cache
                      THEN /\ wk' = [wk EXCEPT ![w] = [pc |-> "robots", url |-> u, due |-> 0]]
                           /\ robotsGets' = Append(robotsGets,
                                  Url(u.scheme, Hostname(u), 0, "/robots.txt", "", ""))
                      ELSE /\ wk' = [wk EXCEPT ![w] =
                                  IF can_fetch(robots.cache[Hostname(u)], u)
                                  THEN [pc |-> "sleep", url |-> u, due |-> now + RATE_DELAY]
                                  ELSE Waiting(now)]
                           /\ UNCHANGED robotsGets
    /\ UNCHANGED <<cfg, env, run, ret, found, now, pc, cur, wakeAt, resp, robots, last,
                   fetched, saved, store, manifest, reqLog, enqLog>>

(* lines 79-87: rp.read() returns or raises after the time it took; the
   parser goes into robots_cache and can_fetch answers *)
PoolRobotsReturn(w) ==
    /\ pc = "pool"
    /\ wk[w].pc = "robots"
    /\ \E d \in RobotsReadTimes :
          LET u  == wk[w].url
              rp == rp_read(env.robots)
          IN  /\ now' = now + d
              /\ robots' = [robots EXCEPT !.cache = (Hostname(u) :> rp) @@ robots.cache]
              /\ wk' = [wk EXCEPT ![w] =
                          IF can_fetch(rp, u)
                          THEN [pc |-> "sleep", url |-> u, due |-> now + d + RATE_DELAY]
                          ELSE Waiting(now + d)]
    /\ UNCHANGED <<cfg, env, run, ret, found, pc, q, seen, cur, wakeAt, resp, last, fetched,
                   saved, store, manifest, reqLog, robotsGets, enqLog>>

(* lines 115-117: the sleep is over and session.get sends the request *)
PoolWake(w) ==
    /\ pc = "pool"
    /\ ~LoopBlocked
    /\ wk[w].pc = "sleep"
    /\ now >= wk[w].due
    /\ wk' = [wk EXCEPT ![w] = [pc |-> "fetching", url |-> @.url, due |-> now + SESSION_TIMEOUT]]
    /\ reqLog' = Append(reqLog, [url |-> wk[w].url, t |-> now, res |-> "pending"])
    /\ UNCHANGED <<cfg, env, run, ret, found, now, pc, q, seen, cur, wakeAt, resp, robots, last,
                   fetched, saved, store, manifest, robotsGets, enqLog>>

(* lines 49-57, 117-158: fetch returns (status, content type, body), or
   (None, "", b"") on an exception or when SESSION_TIMEOUT is over; a
   status other than 200 is dropped, a PDF is saved inside try/except, the
   links of an HTML page are put on to_visit; back to to_visit.get() *)
PoolFetchReturns(w) ==
    /\ pc = "pool"
    /\ ~LoopBlocked
    /\ wk[w].pc = "fetching"
    /\ LET u == wk[w].url
       IN  \E r \in (IF now >= wk[w].due THEN {NoResponse} ELSE FetchOutcomes(u)) :
              /\ reqLog' = [ i \in DOMAIN reqLog |->
                             IF reqLog[i].url = u /\ reqLog[i].res = "pending"
                             THEN [reqLog[i] EXCEPT !.res = Outcome(r)] ELSE reqLog[i] ]
              /\ IF ~r.ok \/ r.status # 200
                 THEN UNCHANGED <<q, enqLog, store, saved>>
                 ELSE IF HasApplicationPdf(r.ct) \/ looks_pdf(u)
                 THEN /\ \E o \in SaveOutcomes :
                           /\ store' = sync_save(store, u, o)
                           /\ saved' = IF o = "ok" THEN saved + 1 ELSE saved
                      /\ UNCHANGED <<q, enqLog>>
                 ELSE IF PoolIsHtml(r.ct)
                 THEN LET f == PoolLinks(r.links, u, cfg, seen, << q, enqLog >>)
                      IN  /\ q' = f[1]
                          /\ enqLog' = f[2]
                          /\ UNCHANGED <<store, saved>>
                 ELSE UNCHANGED <<q, enqLog, store, saved>>
    /\ wk' = [wk EXCEPT ![w] = Waiting(now)]
    /\ UNCHANGED <<cfg, env, run, ret, found, now, pc, seen, cur, wakeAt, resp, robots, last,
                   fetched, manifest, robotsGets>>

(* lines 100-101: no item came within the timeout: the worker returns *)
PoolIdleTimeout(w) ==
    /\ pc = "pool"
    /\ ~LoopBlocked
    /\ wk[w].pc = "idle"
    /\ q = << >>
    /\ now >= wk[w].due
    /\ wk' = [wk EXCEPT ![w] = Exited("timed_out")]
    /\ UNCHANGED <<cfg, env, run, ret, found, now, pc, q, seen, cur, wakeAt, resp, robots, last,
                   fetched, saved, store, manifest, reqLog, robotsGets, enqLog>>

(* a worker whose next step is due now: the event loop runs it before it
   waits for the clock *)
PoolReady(w) ==
    \/ wk[w].pc = "idle" /\ (q # << >> \/ now >= wk[w].due)
    \/ wk[w].pc \in {"sleep", "fetching"} /\ now >= wk[w].due

(* the deadlines the event loop waits for *)
PoolTimers == { wk[w].due : w \in { v \in Workers : wk[v].pc \in {"idle", "sleep", "fetching"} } }

(* the event loop has nothing to run: the clock goes on to the next
   deadline *)
PoolAdvance ==
    /\ pc = "pool"
    /\ ~LoopBlocked
    /\ \A w \in Workers : ~PoolReady(w)
    /\ PoolTimers # {}
    /\ now' = CHOOSE t \in PoolTimers : \A x \in PoolTimers : t <= x
    /\ UNCHANGED <<cfg, env, run, ret, found, pc, q, seen, cur, wakeAt, resp, robots, last,
                   fetched, saved, store, manifest, reqLog, robotsGets, enqLog, wk>>

(* line 161: asyncio.gather returns when every worker has returned *)
PoolFinish ==
    /\ pc = "pool"
    /\ \A w \in Workers : wk[w].pc \in {"timed_out", "capped"}
    /\ pc' = "done"
    /\ UNCHANGED <<cfg, env, run, ret, found, now, q, seen, cur, wakeAt, resp, robots, last,
                   fetched, saved, store, manifest, reqLog, robotsGets, enqLog, wk>>

NextPool ==
    \/ PoolStart
    \/ \E w \in Workers : \/ PoolGet(w)
                          \/ PoolRobotsReturn(w)
                          \/ PoolWake(w)
                          \/ PoolFetchReturns(w)
                          \/ PoolIdleTimeout(w)
    \/ PoolAdvance
    \/ PoolFinish

SpecPool == InitPool /\ [][NextPool]_vars

(* C26: a worker that finds the queue empty leaves only after its timeout,
   and never while a sibling is still working on a page (checking it,
   sleeping before its request, or waiting for its response), whose links
   may yet be put on the queue *)
C26_NoIdleExitWhileSiblingWorks ==
    [][ \A w \in Workers :
          (wk[w].pc = "idle" /\ wk'[w].pc = "timed_out") =>
              /\ now >= wk[w].due
              /\ \A v \in Workers \ {w} : wk[v].pc \notin {"robots", "sleep", "fetching"} ]_vars

(* C27: while the network operation of one worker is pending (its page
   request or the robots.txt request its check made), every other worker
   that waits for an item can take one from a queue that has one *)
C27_StallBlocksOnlyItsWorker ==
    \A w, v \in DOMAIN wk :
        ( /\ w # v
          /\ wk[w].pc \in {"robots", "fetching"}
          /\ wk[v].pc = "idle"
          /\ q # << >> ) => ENABLED PoolGet(v)

(* C29: every URL the link loop of the pool's worker puts on the queue
   (the entries after the seeds) is a normalised http(s) URL that passes
   the Domain Policy; empty, javascript: and mailto: hrefs put nothing *)
C29_LinksNormalizedAndAllowed ==
    \A i \in DOMAIN enqLog :
        i > Len(cfg.seeds) =>
            /\ enqLog[i].scheme \in {"http", "https"}
            /\ _norm_url(EmptyHref, enqLog[i]) = enqLog[i]
            /\ DomainPolicy(enqLog[i], cfg)

----------------------------------------------------------------------------
(* crawl_cmd of cli.py: the allow-list comes from --allow or, without the   *)
(* option, from configs/config.yaml; an empty one ends the command before   *)
(* CrawlConfig is built and crawl() is called                               *)

(* the values of the option --allow: None, an empty list, or the domains
   given *)
AllowOptions == { [given |-> FALSE, v |-> {}], [given |-> TRUE, v |-> {}],
                  [given |-> TRUE, v |-> {"a.org"}] }

(* crawl.allow_domains of config.yaml: missing or empty, or a list *)
YamlAllowLists == { {}, {"a.org"} }

(* line 65 *)
AllowDomainsOf(e) == IF e.allow_opt.given THEN e.allow_opt.v ELSE e.yaml_allow

(* the test of line 66 answering False for every list *)
EmptyAllowList_never(allow_domains) == FALSE

(* line 66: not allow_domains *)
EmptyAllowList(allow_domains) == allow_domains = {}

(* the options of the command: one --seed *)
CliConfigs == { c \in Configs : Len(c.seeds) = 1 }

InitCli ==
    /\ cfg \in { [c EXCEPT !.allow_domains = {}] : c \in CliConfigs }
    /\ env \in [robots : {"200"}, allow_opt : AllowOptions, yaml_allow : YamlAllowLists]
    /\ now = TicksPerSecond
    /\ pc = "cli"
    /\ q = << >>
    /\ seen = {}
    /\ cur = None
    /\ wakeAt = 0
    /\ resp = NoResponse
    /\ robots = EmptyRobotsCache
    /\ last = << >>
    /\ fetched = 0
    /\ saved = 0
    /\ store = EmptyStore
    /\ manifest = << >>
    /\ reqLog = << >>
    /\ robotsGets = << >>
    /\ enqLog = << >>
    /\ wk = << >>
    /\ run = FirstRun
    /\ ret = NoCall
    /\ found = {}

(* lines 62-81: SystemExit(2) for an empty allow-list; otherwise the
   CrawlConfig is built and crawl() is run *)
CrawlCmd ==
    /\ pc = "cli"
    /\ LET allow_domains == AllowDomainsOf(env)
       IN  IF EmptyAllowList(allow_domains)
           THEN /\ pc' = "exit 2"
                /\ UNCHANGED cfg
           ELSE /\ cfg' = [cfg EXCEPT !.allow_domains = allow_domains]
                /\ pc' = "start"
    /\ UNCHANGED <<env, run, ret, found, now, q, seen, cur, wakeAt, resp, robots, last, fetched,
                   saved, store, manifest, reqLog, robotsGets, enqLog, wk>>

NextCli == CrawlCmd \/ Next

SpecCli == InitCli /\ [][NextCli]_vars

(* C28: with an empty allow-list the command ends before the crawl starts:
   crawl() is never entered, no robots.txt, sitemap or page request is
   sent, and nothing is written to the store or the manifest *)
C28_EmptyAllowListStopsBeforeCrawl ==
    (AllowDomainsOf(env) = {} /\ pc # "cli") =>
        /\ pc = "exit 2"
        /\ reqLog = << >>
        /\ robotsGets = << >>
        /\ store = EmptyStore
        /\ manifest = << >>

(* the command was run with no --allow and no list in config.yaml, and has
   ended *)
C28_Witness ==
    /\ ~env.allow_opt.given
    /\ env.yaml_allow = {}
    /\ pc = "exit 2"

(* C30: when the parser raises on the body of an HTML page (the page was
   saved, so line 268 was reached), the page gives no links: the step
   leaves the queue and the seen set as they were and the crawl is back at
   its loop for the next frontier URL *)
C30_ParseFailureYieldsNoLinks ==
    [][ (pc = "got" /\ resp.ok /\ ~resp.parses /\ Len(manifest') = Len(manifest) + 1) =>
            /\ q' = q
            /\ seen' = seen
            /\ enqLog' = enqLog
            /\ pc' = "loop" ]_vars

(* the page / came with a body the parser raised on, it was saved, and the
   crawl went on to its loop with no link of the page in the queue *)
C30_Witness ==
    /\ pc = "loop"
    /\ resp.ok /\ ~resp.parses
    /\ cur = Url("http", "a.org", 0, "/", "", "")
    /\ resp.links # << >>
    /\ \E i \in DOMAIN manifest : manifest[i].url = cur
    /\ enqLog = SeedsN(cfg.seeds, cfg)

----------------------------------------------------------------------------
(* The order of the frontier of crawl() *)

(* the URLs taken from the queue so far: the queue only loses its head and
   only gains at its end, so they are the entries of enqLog before it *)
Dequeued == SubSeq(enqLog, 1, Len(enqLog) - Len(q))

(* C31: the frontier is first-in first-out and seeded in a fixed order: the
   first content of the queue is the sitemap-discovered URLs followed by
   the allowed seeds in their given order; afterwards a step either takes
   the URL at the head, which is the oldest entry not yet taken, or
   appends at the end *)
C31_FifoSitemapsBeforeSeeds ==
    [][ /\ pc = "start" =>
            LET seeds_n == SeedsN(cfg.seeds, cfg)
                k       == Len(q') - Len(seeds_n)
            IN  /\ k >= 0
                /\ SubSeq(q', k + 1, Len(q')) = seeds_n
                /\ \A i \in 1..k : q'[i] \notin Range(cfg.seeds)
        /\ (pc = "loop" /\ pc' # "done") =>
            /\ q' = Tail(q)
            /\ Head(q) = enqLog[Len(enqLog) - Len(q) + 1]
            /\ pc' \in {"sleep", "fetching"} => cur' = Head(q)
        /\ pc = "got" =>
            /\ Len(q') >= Len(q)
            /\ SubSeq(q', 1, Len(q)) = q
            /\ Len(enqLog') - Len(q') = Len(enqLog) - Len(q) ]_vars

(* two seeds and the links of the first were enqueued, and the second seed
   has been taken from the queue before any of those links *)
C31_Witness ==
    /\ pc = "fetching"
    /\ Len(SeedsN(cfg.seeds, cfg)) = 2
    /\ cfg.seeds[1] # cfg.seeds[2]
    /\ Len(enqLog) > 2
    /\ cur = enqLog[2]
    /\ q = SubSeq(enqLog, 3, Len(enqLog))

(* C32: when the crawl has ended and max_pages is at least the number of
   seeds given, every allow-listed seed has been taken from the queue
   (fetched, or rejected by robots) *)
C32_SeedsDequeuedBeforeEnd ==
    (pc \in {"done", "crashed"} /\ cfg.max_pages >= Len(cfg.seeds)) =>
        Len(Dequeued) >= Len(SeedsN(cfg.seeds, cfg))

(* C33: a URL enters the seen set at the moment it is dequeued and at no
   other time, and a dequeued URL that is in the seen set already is
   dropped: no request is sent for it *)
C33_SeenMarkedAtDequeue ==
    [][ /\ seen' # seen => (pc = "loop" /\ q # << >> /\ q' = Tail(q)
                              /\ seen' = seen \cup {Head(q)})
        /\ (pc = "loop" /\ q # << >> /\ q' = Tail(q) /\ Head(q) \in seen) =>
              (pc' = "loop" /\ reqLog' = reqLog) ]_vars

----------------------------------------------------------------------------
(* Classification of a response against the place it is stored             *)

(* what the loop takes a saved response for: line 259 passes the raw bytes
   when is_pdf holds and the encoded text otherwise *)
LoopClass(c) == IF c.is_pdf THEN "pdf" ELSE "html"

(* C34: for every URL and Content-Type the directory and extension chosen
   by _save_blob agree with the classification of the crawl loop: a
   response the loop takes for a pdf (raw bytes) goes to pdf/<h>.pdf and one
   it takes for html (text bytes) goes to html/<h>.html. *)
C34_StoredKindAgreesWithLoop ==
    (pc = "returned" /\ ret.fn = "classify" /\ ret.value.kind # "other") =>
        ret.value.kind = LoopClass(ret.value)

(* C40: a response that is saved as a pdf is never parsed for links (the
   links are parsed exactly when is_html holds), so each response is
   handled as exactly one of pdf, html and other. *)
C40_PdfNeverParsedForLinks ==
    (pc = "returned" /\ ret.fn = "classify") =>
        /\ ret.value.kind = "pdf" => ~ret.value.is_html
        /\ ret.value.kind = "other" => ~ret.value.is_html

----------------------------------------------------------------------------
(* Properties of the worker pool: robots rulesets, the seen set and the cap *)

(* the robots.txt requests sent so far, as servers *)
RobotsServers == { ServerOf(robotsGets[i]) : i \in DOMAIN robotsGets }

(* C36: the ruleset a URL is judged by was fetched from the URL's own
   scheme, hostname and port: every page request goes to a server whose
   robots.txt was requested. *)
C36_RulesetOfOwnServer ==
    \A i \in DOMAIN reqLog : ServerOf(reqLog[i].url) \in RobotsServers

(* C37: under every interleaving of the workers no URL is requested twice
   in a run, also when it was put on the queue several times. *)
C37_EachUrlFetchedOnce ==
    \A i, j \in DOMAIN reqLog : reqLog[i].url = reqLog[j].url => i = j

C37_Witness ==
    /\ pc = "done"
    /\ \E i, j \in DOMAIN enqLog :
          /\ i < j
          /\ enqLog[i] = enqLog[j]
          /\ \E k \in DOMAIN reqLog : reqLog[k].url = enqLog[i]
    /\ q = << >>

(* C38, as the code has it: under every interleaving the number of page
   requests of a run never exceeds MAX_PAGES. *)
C38_FetchesWithinMaxPages == Len(reqLog) <= cfg.max_pages

C38_Witness ==
    /\ Len(reqLog) = cfg.max_pages
    /\ Cardinality(seen) > cfg.max_pages
    /\ \E w \in Workers : wk[w].pc = "capped"
    /\ \E w \in Workers : wk[w].pc \in {"timed_out", "idle"}

(* C38, as stated: once the seen set is larger than MAX_PAGES no worker
   starts another fetch. *)
C38_NoFetchStartsOverCap ==
    [][ Len(reqLog') > Len(reqLog) => Cardinality(seen) <= cfg.max_pages ]_vars

(* the runs of the pool the seen set and the cap are checked on: the seeds
   are pages of a.org over http, robots.txt is served *)
PoolRunSeeds == { Url("http", "a.org", 0, "/", "", ""), Url("http", "a.org", 0, "/b", "", "") }

InitPoolRun ==
    /\ InitPool
    /\ Range(cfg.seeds) \subseteq PoolRunSeeds
    /\ env.robots = "200"

SpecPoolRun == InitPoolRun /\ [][NextPool]_vars

----------------------------------------------------------------------------
(* download_one of fetch_all_pdfs_headless.py and of                        *)
(* crawl_pdfs_sitemaps_first.py, called again and again on data/raw         *)

(* the URLs handed to download_one *)
DlUrls == { Url("http", "a.org", 0, "/doc.pdf", "", ""),
            Url("http", "a.org", 0, "/report.pdf", "v=2", "") }

(* the number of chunks iter_content yields for a body that is not empty *)
BodyChunks == 2

(* the bodies a server sends with status 200, in chunks *)
BodySizes == {0, BodyChunks}

(* pdf_path does not exist *)
Absent == -1

(* target_paths_for: <sha16>_<name>.pdf and <sha16>.meta.json; the model
   keys both by the URL (no two URLs of the model collide) *)
target_paths_for(url) == [pdf_path |-> url, meta_path |-> url]

(* data/raw before the first call: no blob of these scripts; crawl_pdfs.py
   and crawl_pdfs_sync.py write their sidecars to the same
   data/raw/<sha16>.meta.json, so a URL they saved has one *)
DlStores == [blob : {[u \in DlUrls |-> Absent]}, meta : SUBSET DlUrls]

(* the existence check of download_one *)
AlreadySaved_never(st, url) == FALSE

AlreadySaved(st, url) ==
    LET p == target_paths_for(url)
    IN  /\ st.blob[p.pdf_path] # Absent
        /\ st.blob[p.pdf_path] > 0
        /\ p.meta_path \in st.meta

(* the value download_one returns *)
DownloadResult(url, ok, size) == [url |-> url, ok |-> ok, size |-> size]

InitDownload ==
    /\ cfg \in [seeds : {<< >>}, allow_domains : {{"a.org"}}, include_subdomains : {TRUE},
                obey_robots_txt : {TRUE}, rate_limit_per_domain : {1},
                max_pages : {MaxPagesBound}, use_sitemaps : {FALSE}]
    /\ env = [robots |-> "200"]
    /\ now = TicksPerSecond
    /\ pc = "idle"
    /\ q = << >>
    /\ seen = {}
    /\ cur = None
    /\ wakeAt = 0
    /\ resp = NoResponse
    /\ robots = EmptyRobotsCache
    /\ last = << >>
    /\ fetched = 0
    /\ saved = 0
    /\ store \in DlStores
    /\ manifest = << >>
    /\ reqLog = << >>
    /\ robotsGets = << >>
    /\ enqLog = << >>
    /\ wk = << >>
    /\ run = FirstRun
    /\ ret = NoCall
    /\ found = {}

(* download_one(url) up to the first chunk: the existence check returns
   success at once; otherwise the GET is sent, and a response with status
   200 makes open(pdf_path, "wb") create or truncate the blob. fetched
   counts the calls, cur is the URL of the call *)
DlCall ==
    /\ pc = "idle"
    /\ fetched < MaxCalls + 1
    /\ \E url \in DlUrls :
          /\ cur' = url
          /\ fetched' = fetched + 1
          /\ IF AlreadySaved(store, url)
             THEN /\ ret' = DownloadResult(url, TRUE, store.blob[url])
                  /\ UNCHANGED <<pc, resp, store, reqLog>>
             ELSE /\ reqLog' = Append(reqLog, [url |-> url, t |-> now, res |-> "sent"])
                  /\ \/ /\ ret' = DownloadResult(url, FALSE, 0)
                        /\ UNCHANGED <<pc, resp, store>>
                     \/ \E b \in BodySizes :
                          /\ resp' = [ok |-> TRUE, status |-> 200, chunks |-> b]
                          /\ store' = [store EXCEPT !.blob[url] = 0]
                          /\ pc' = "streaming"
                          /\ ret' = ret
    /\ UNCHANGED <<cfg, env, run, found, now, q, seen, wakeAt, robots, last, saved, manifest,
                   robotsGets, enqLog, wk>>

(* f.write(chunk) for the next chunk of the body *)
DlChunk ==
    /\ pc = "streaming"
    /\ store.blob[cur] < resp.chunks
    /\ store' = [store EXCEPT !.blob[cur] = @ + 1]
    /\ UNCHANGED <<cfg, env, run, ret, found, now, pc, q, seen, cur, wakeAt, resp, robots, last,
                   fetched, saved, manifest, reqLog, robotsGets, enqLog, wk>>

(* iter_content raises before the body is complete (the connection breaks,
   the read times out) or the run is interrupted: "with open" closes the
   blob as far as it was written and download_one reports a failure *)
DlBreak ==
    /\ pc = "streaming"
    /\ store.blob[cur] < resp.chunks
    /\ ret' = DownloadResult(cur, FALSE, 0)
    /\ pc' = "idle"
    /\ UNCHANGED <<cfg, env, run, found, now, q, seen, cur, wakeAt, resp, robots, last,
                   fetched, saved, store, manifest, reqLog, robotsGets, enqLog, wk>>

(* the body is complete: the sidecar is written and download_one reports
   success with the size; found records the downloads that succeeded *)
DlMeta ==
    /\ pc = "streaming"
    /\ store.blob[cur] = resp.chunks
    /\ store' = [store EXCEPT !.meta = @ \cup {target_paths_for(cur).meta_path}]
    /\ found' = found \cup {[url |-> cur, size |-> resp.chunks]}
    /\ ret' = DownloadResult(cur, TRUE, resp.chunks)
    /\ pc' = "idle"
    /\ UNCHANGED <<cfg, env, run, now, q, seen, cur, wakeAt, resp, robots, last,
                   fetched, saved, manifest, reqLog, robotsGets, enqLog, wk>>

NextDownload == DlCall \/ DlChunk \/ DlBreak \/ DlMeta

SpecDownload == InitDownload /\ [][NextDownload]_vars

(* C35: when the blob of a URL exists with size > 0 and its sidecar exists,
   download_one sends no request, reports success and leaves blob and
   sidecar as they are. *)
C35_SavedUrlIsSkipped ==
    [][ (/\ pc = "idle"
         /\ fetched' = fetched + 1
         /\ store.blob[cur'] > 0
         /\ cur' \in store.meta) =>
            /\ reqLog' = reqLog
            /\ store' = store
            /\ pc' = "idle"
            /\ ret' = DownloadResult(cur', TRUE, store.blob[cur']) ]_vars

C35_Witness ==
    /\ pc = "idle"
    /\ fetched = 2
    /\ Len(reqLog) = 1
    /\ reqLog[1].url = cur
    /\ [url |-> cur, size |-> BodyChunks] \in found
    /\ ret = DownloadResult(cur, TRUE, BodyChunks)

(* C39: whenever the existence check of download_one succeeds for a URL,
   its blob holds the complete body of an earlier download that succeeded:
   a download that broke part-way is never taken for saved. *)
C39_CheckPassesOnlyOnCompleteBlob ==
    \A url \in DlUrls :
        (pc = "idle" /\ AlreadySaved(store, url)) =>
            [url |-> url, size |-> store.blob[url]] \in found

====
